---- MODULE Spec2Model ----
(***************************************************************************)
(* syncbox: one-way synchronisation of a local directory tree to a remote  *)
(* store.  The model covers the checksum tree (src/src/checksum_tree.rs),  *)
(* the reconciler (src/src/reconciler.rs) and the execution engine in      *)
(* main (src/src/main.rs): Mkdir phase, pooled Put phase with intermittent *)
(* checksum upload, pooled Remove phase and the final checksum upload.     *)
(*                                                                         *)
(* A path is the sequence of its components.  A ChecksumElement is the     *)
(* record [d |-> map] (Directory) or [f |-> checksum] (File), a map being  *)
(* a function from component names to elements (HashMap<String, _>).       *)
(* Versions are strings, modelled as sequences of character codes.         *)
(***************************************************************************)
EXTENDS Integers, Sequences, FiniteSets, TLC

VARIABLES
    pc,                      \* position of main
    args,                    \* command line: concurrency, intermittent_checksum_upload, skip, skip_removal
    previous_checksum_tree,  \* snapshot read from the transport at start
    next_checksum_tree,      \* working tree (Arc<Mutex<ChecksumTree>>), initially the local scan
    scanned,                 \* the local scan as built from the flat map (never mutated)
    previous_checksum,       \* reconcile: the consumed copy of previous' root
    to_reconcile,            \* reconcile: VecDeque of (next_depth, element)
    stack,                   \* reconcile: deletion pass stack of (path, element)
    actions,                 \* reconcile: Vec<Action> being built, then todo
    has_error,               \* Arc<AtomicBool>
    mkdir_i,                 \* index i of the Mkdir loop (0-based, next to run)
    file_size,               \* std::fs::metadata(path).len() of the local files
    transports,              \* the pool: number of connections in the Vec (they are interchangeable)
    put_actions,             \* the Put paths, sorted by file size
    put_task,                \* per Put task: position, held connection, local snapshot clone
    remove_actions,          \* the Remove paths in reconciler order
    remove_task,             \* per Remove task: position, held connection
    finished_paths,          \* Arc<Mutex<HashSet<PathBuf>>>
    finished_guard,          \* index of the Put task holding the finished_paths lock, 0 if free
    remote,                  \* the snapshot object on the remote side and how it was written
    attempts,                \* per action of todo: number of transport calls made for it
    failed,                  \* the actions whose transport call returned an error
    connections,             \* transports made by make_transport and calls of close()
    call                     \* the library call of a function-level specification

----------------------------------------------------------------------------
(* Bounds of the model.                                                    *)

MaxFingerprint == 2

MaxConcurrency == 2

MaxInterval == 2

MaxSkip == 4

\* the longest source stream, in reads before the end of file
MaxReads == 3

----------------------------------------------------------------------------
(* HashMap<String, ChecksumElement> and ChecksumElement.                   *)

EmptyMap == [x \in {} |-> 0]

MapRemove(m, k) == [x \in (DOMAIN m) \ {k} |-> m[x]]

MapInsert(m, k, v) == [x \in (DOMAIN m) \cup {k} |-> IF x = k THEN v ELSE m[x]]

Directory(m) == [d |-> m]

File(c) == [f |-> c]

IsDirectory(e) == DOMAIN e = {"d"}

IsFile(e) == DOMAIN e = {"f"}

DefaultElement == Directory(EmptyMap)

ChecksumTree(v, r) == [version |-> v, root |-> r]

\* Marks a call that ended in a panic (unreachable!(), unwrap on None).
Panic == [panic |-> TRUE]

----------------------------------------------------------------------------
(* Paths.  Path::iter yields the components; collecting components into a  *)
(* PathBuf and iterating it again drops every "." that is not the first    *)
(* component (std::path normalisation).                                    *)

RECURSIVE DropCurDir(_, _)
DropCurDir(comps, i) ==
    IF i > Len(comps) THEN <<>>
    ELSE IF i > 1 /\ comps[i] = "." THEN DropCurDir(comps, i + 1)
    ELSE <<comps[i]>> \o DropCurDir(comps, i + 1)

PathBuf(comps) == DropCurDir(comps, 1)

IsPrefix(p, q) == Len(p) <= Len(q) /\ SubSeq(q, 1, Len(p)) = p

IsProperPrefix(p, q) == Len(p) < Len(q) /\ IsPrefix(p, q)

Last(s) == s[Len(s)]

Front(s) == SubSeq(s, 1, Len(s) - 1)

Perms(S) == {p \in [1..Cardinality(S) -> S] : \A i, j \in 1..Cardinality(S) : p[i] = p[j] => i = j}

----------------------------------------------------------------------------
(* Observers of a tree, used to state properties.                          *)

RECURSIVE FilesUnder(_, _)
\* the set of <<path, checksum>> of the File leaves below element e at prefix
FilesUnder(e, prefix) ==
    IF IsFile(e) THEN {<<prefix, e.f>>}
    ELSE UNION {FilesUnder(e.d[k], Append(prefix, k)) : k \in DOMAIN e.d}

RECURSIVE DirsUnder(_, _)
\* the set of paths of the Directory nodes strictly below element e
DirsUnder(e, prefix) ==
    IF IsFile(e) THEN {}
    ELSE UNION {(IF IsDirectory(e.d[k]) THEN {Append(prefix, k)} ELSE {})
                    \cup DirsUnder(e.d[k], Append(prefix, k)) : k \in DOMAIN e.d}

TreeFiles(t) == FilesUnder(t.root, <<>>)

TreeFilePaths(t) == {x[1] : x \in TreeFiles(t)}

TreeDirs(t) == DirsUnder(t.root, <<>>)

----------------------------------------------------------------------------
(* ChecksumTree::remove_at.                                                *)

RECURSIVE RemoveAtDir(_, _, _)
RemoveAtDir(current_dir, components, i) ==
    IF i > Len(components) THEN current_dir
    ELSE IF i = Len(components) THEN MapRemove(current_dir, components[i])
    ELSE IF components[i] \in DOMAIN current_dir /\ IsDirectory(current_dir[components[i]])
         THEN MapInsert(current_dir, components[i],
                        Directory(RemoveAtDir(current_dir[components[i]].d, components, i + 1)))
         ELSE current_dir

\* mutant: the directory holding the node is removed
remove_at_parent(tree, path) ==
    IF IsDirectory(tree.root)
    THEN ChecksumTree(tree.version, Directory(RemoveAtDir(tree.root.d, Front(path), 1)))
    ELSE tree

RECURSIVE RemoveAtDirPruned(_, _, _)
RemoveAtDirPruned(current_dir, components, i) ==
    IF i > Len(components) THEN current_dir
    ELSE IF i = Len(components) THEN MapRemove(current_dir, components[i])
    ELSE IF components[i] \in DOMAIN current_dir /\ IsDirectory(current_dir[components[i]])
         THEN LET sub == RemoveAtDirPruned(current_dir[components[i]].d, components, i + 1)
              IN  IF DOMAIN sub = {} THEN MapRemove(current_dir, components[i])
                  ELSE MapInsert(current_dir, components[i], Directory(sub))
         ELSE current_dir

\* mutant: a directory left empty by the removal is removed with the node
remove_at_pruned(tree, path) ==
    IF IsDirectory(tree.root)
    THEN ChecksumTree(tree.version, Directory(RemoveAtDirPruned(tree.root.d, path, 1)))
    ELSE tree

remove_at(tree, path) ==
    IF IsDirectory(tree.root)
    THEN ChecksumTree(tree.version, Directory(RemoveAtDir(tree.root.d, path, 1)))
    ELSE tree

RECURSIVE RemoveAll(_, _)
\* for_each(|path| tree.remove_at(path)) over a sequence of paths
RemoveAll(tree, paths) ==
    IF paths = <<>> THEN tree
    ELSE RemoveAll(remove_at(tree, paths[1]), Tail(paths))

----------------------------------------------------------------------------
(* impl From<HashMap<String, String>> for ChecksumTree.                    *)

RECURSIVE InsertFileFresh(_, _, _, _)
\* mutant: the directory taken from the parent is not carried on the stack,
\* an empty one takes its place
InsertFileFresh(parent_map, path, i, checksum) ==
    IF i = Len(path) THEN MapInsert(parent_map, path[i], File(checksum))
    ELSE MapInsert(parent_map, path[i],
                   Directory(InsertFileFresh(EmptyMap, path, i + 1, checksum)))

RECURSIVE InsertFile(_, _, _, _)
\* one iteration of the loop over the map: fold the path into the root map
InsertFile(parent_map, path, i, checksum) ==
    IF i = Len(path) THEN MapInsert(parent_map, path[i], File(checksum))
    ELSE LET map == IF path[i] \in DOMAIN parent_map THEN parent_map[path[i]]
                    ELSE DefaultElement
         IN  IF ~IsDirectory(map) THEN Panic
             ELSE LET sub == InsertFile(map.d, path, i + 1, checksum)
                  IN  IF sub = Panic THEN Panic
                      ELSE MapInsert(parent_map, path[i], Directory(sub))

RECURSIVE FoldFlatMap(_, _, _)
FoldFlatMap(root_map, map, keys) ==
    IF keys = {} \/ root_map = Panic THEN root_map
    ELSE LET k == CHOOSE x \in keys : TRUE
         IN  FoldFlatMap(InsertFile(root_map, k, 1, map[k]), map, keys \ {k})

RECURSIVE FoldFlatMapIn(_, _, _)
\* the loop over the map when the HashMap yields its keys in the order `order`
FoldFlatMapIn(root_map, map, order) ==
    IF order = <<>> \/ root_map = Panic THEN root_map
    ELSE FoldFlatMapIn(InsertFile(root_map, order[1], 1, map[order[1]]), map, Tail(order))

\* env!("CARGO_PKG_VERSION"), here the string "10"
ClientVersion == <<49, 48>>

from_flat_map(map) ==
    LET r == FoldFlatMap(EmptyMap, map, DOMAIN map)
    IN  IF r = Panic THEN Panic ELSE ChecksumTree(ClientVersion, Directory(r))

\* ChecksumTree::from(map) when the HashMap yields its keys in the order `order`
from_flat_map_in(map, order) ==
    LET r == FoldFlatMapIn(EmptyMap, map, order)
    IN  IF r = Panic THEN Panic ELSE ChecksumTree(ClientVersion, Directory(r))

----------------------------------------------------------------------------
(* Serialisation of a ChecksumTree (serde derive).  A JSON document is     *)
(* the record [version, root]; a node of it is [tag, val], the externally  *)
(* tagged form of an enum variant: val is the checksum of a File and the   *)
(* map of the children of a Directory.  A byte string is [format, doc]:    *)
(* the container ("json" for the bare text, "gzip" for a gzip stream) and  *)
(* the document it holds.                                                  *)

\* a decoder returned Err
DecodeError == [error |-> TRUE]

RECURSIVE SerializeShort(_)
\* mutant: the variants are written under their aliases
SerializeShort(e) ==
    IF IsFile(e) THEN [tag |-> "f", val |-> e.f]
    ELSE [tag |-> "d", val |-> [k \in DOMAIN e.d |-> SerializeShort(e.d[k])]]

RECURSIVE Serialize(_)
\* derive(Serialize) for ChecksumElement: the variant names are the tags
Serialize(e) ==
    IF IsFile(e) THEN [tag |-> "File", val |-> e.f]
    ELSE [tag |-> "Directory", val |-> [k \in DOMAIN e.d |-> Serialize(e.d[k])]]

\* derive(Serialize) for ChecksumTree
SerializeTree(tree) == [version |-> tree.version, root |-> Serialize(tree.root)]

\* mutant: only the variant names are accepted, the aliases are not
VariantByNameOnly(tag) ==
    CASE tag = "Directory" -> "Directory"
      [] tag = "File" -> "File"
      [] OTHER -> "unknown"

\* the variant a tag selects: its name or its serde alias
Variant(tag) ==
    CASE tag \in {"Directory", "d"} -> "Directory"
      [] tag \in {"File", "f"} -> "File"
      [] OTHER -> "unknown"

RECURSIVE Deserialize(_)
\* derive(Deserialize) for ChecksumElement
Deserialize(node) ==
    CASE Variant(node.tag) = "File" -> File(node.val)
      [] Variant(node.tag) = "Directory" ->
            LET children == [k \in DOMAIN node.val |-> Deserialize(node.val[k])]
            IN  IF \E k \in DOMAIN children : children[k] = DecodeError THEN DecodeError
                ELSE Directory(children)
      [] OTHER -> DecodeError

\* derive(Deserialize) for ChecksumTree
DeserializeTree(doc) ==
    LET root == Deserialize(doc.root)
    IN  IF root = DecodeError THEN DecodeError ELSE ChecksumTree(doc.version, root)

\* ChecksumTree::to_gzip: serde_json::to_writer into a GzEncoder
to_gzip(tree) == [format |-> "gzip", doc |-> SerializeTree(tree)]

\* mutant: the bytes are parsed as bare JSON text
from_gzip_plain(bytes) ==
    IF bytes.format # "json" THEN DecodeError ELSE DeserializeTree(bytes.doc)

\* ChecksumTree::from_gzip: serde_json::from_reader over a GzDecoder
from_gzip(bytes) ==
    IF bytes.format # "gzip" THEN DecodeError ELSE DeserializeTree(bytes.doc)

\* serde_json::to_string_pretty(checksum_tree)
to_string_pretty(tree) == [format |-> "json", doc |-> SerializeTree(tree)]

\* serde_json::from_slice::<ChecksumTree>(&bytes)
from_slice(bytes) ==
    IF bytes.format # "json" THEN DecodeError ELSE DeserializeTree(bytes.doc)

----------------------------------------------------------------------------
(* Reconciler (src/src/reconciler.rs).                                     *)

Mkdir(p) == [type |-> "Mkdir", path |-> p]

Put(p) == [type |-> "Put", path |-> p]

Remove(p) == [type |-> "Remove", path |-> p]

RECURSIVE StrLess(_, _)
\* a < b on &str: lexicographic order of the bytes
StrLess(a, b) ==
    IF b = <<>> THEN FALSE
    ELSE IF a = <<>> THEN TRUE
    ELSE IF a[1] # b[1] THEN a[1] < b[1]
    ELSE StrLess(Tail(a), Tail(b))

\* mutant: the gate lets every pair of versions through
check_version_open(prev, next) == TRUE

\* mutant: the versions are compared as numbers (shorter is smaller)
check_version_numeric(prev, next) ==
    Len(next) > Len(prev) \/ (Len(next) = Len(prev) /\ ~StrLess(next, prev))

\* check_version(prev, next) returns Ok
check_version(prev, next) == ~StrLess(next, prev)

SetLast(s, v) == [s EXCEPT ![Len(s)] = v]

\* mutant: a Put is placed at the head of the list
pushPutFirst(acts, a) == IF a.type = "Put" THEN <<a>> \o acts ELSE Append(acts, a)

\* mutant: a Mkdir is placed at the head of the list
pushMkdirFirst(acts, a) == IF a.type = "Mkdir" THEN <<a>> \o acts ELSE Append(acts, a)

\* actions.push(action)
push(acts, a) == Append(acts, a)

RECURSIVE Descend(_, _, _, _, _)
\* the loop over next_depth.iter().take(len - 1): detach each matched
\* directory from its parent and carry it on the stack
Descend(stk, path, acts, next_depth, i) ==
    IF i > Len(next_depth) - 1 THEN [stack |-> stk, path |-> path, actions |-> acts]
    ELSE LET key == next_depth[i]
             path1 == Append(path, key)
             currently_searching == Last(stk)
         IN  IF IsDirectory(currently_searching)
             THEN IF key \in DOMAIN currently_searching.d
                  THEN Descend(Append(SetLast(stk, Directory(MapRemove(currently_searching.d, key))),
                                      currently_searching.d[key]),
                               path1, acts, next_depth, i + 1)
                  ELSE Descend(Append(stk, DefaultElement), path1,
                               IF Len(path1) > 1 THEN push(acts, Mkdir(PathBuf(path1))) ELSE acts,
                               next_depth, i + 1)
             ELSE Descend(stk, path1, acts, next_depth, i + 1)

\* mutant: a Put for every file of next, changed or not
LeafAlwaysPut(element, new_checksum) == TRUE

\* mutant: the comparison of the checksums inverted
LeafPutIfSame(element, new_checksum) == element.f = new_checksum

\* "check for file or create file": whether the leaf makes a Put
LeafNeedsPut(element, new_checksum) == element.f # new_checksum

\* the match on the leaf: the stack with the file removed and the actions
LeafCheck(stk, acts, next_depth, new_checksum) ==
    LET leaf == Last(stk)
        filename == Last(next_depth)
    IN  IF ~IsDirectory(leaf) THEN Panic
        ELSE IF filename \in DOMAIN leaf.d
             THEN LET element == leaf.d[filename]
                      stk1 == SetLast(stk, Directory(MapRemove(leaf.d, filename)))
                  IN  IF ~IsFile(element) THEN Panic
                      ELSE [stack |-> stk1,
                            actions |-> IF LeafNeedsPut(element, new_checksum)
                                        THEN push(acts, Put(PathBuf(next_depth)))
                                        ELSE acts]
             ELSE [stack |-> stk, actions |-> push(acts, Put(PathBuf(next_depth)))]

\* mutant: the carried subtree is dropped instead of spliced back
SpliceNothing(parent, name, child) == parent

\* mutant: a directory left empty is not spliced back
SpliceUnlessEmpty(parent, name, child) ==
    IF child = DefaultElement THEN parent ELSE Directory(MapInsert(parent.d, name, child))

\* one step of "build back into tree": the parent with the child spliced in
Splice(parent, name, child) == Directory(MapInsert(parent.d, name, child))

RECURSIVE BuildBack(_, _)
BuildBack(stk, path) ==
    IF Len(stk) <= 1 THEN stk[1]
    ELSE LET child == Last(stk)
             rest == Front(stk)
             parent == Last(rest)
         IN  IF IsDirectory(parent)
             THEN BuildBack(SetLast(rest, Splice(parent, Last(path), child)), Front(path))
             ELSE BuildBack(rest, path)

\* the ChecksumElement::File arm of the loop of reconcile
ReconcileFile(prev_root, acts, next_depth, new_checksum) ==
    IF next_depth = <<>> THEN Panic
    ELSE LET down == Descend(<<prev_root>>, <<>>, acts, next_depth, 1)
             leaf == LeafCheck(down.stack, down.actions, next_depth, new_checksum)
         IN  IF leaf = Panic THEN Panic
             ELSE [previous_checksum |-> BuildBack(leaf.stack, down.path),
                   actions |-> leaf.actions]

\* children of a directory in the iteration order `order`, as queue entries
Children(dir, prefix, order) ==
    [i \in 1..Len(order) |-> [path |-> PathBuf(Append(prefix, order[i])), element |-> dir[order[i]]]]

----------------------------------------------------------------------------
(* Inputs.                                                                 *)

\* every tree a flat map over the path set U builds (no path of the map a
\* prefix of another), with checksums 1..MaxFingerprint
FlatMaps(U) ==
    UNION {[S -> 1..MaxFingerprint] :
              S \in {T \in SUBSET U : \A p, q \in T : ~IsProperPrefix(p, q)}}

\* a tree with an empty directory added at path dir when nothing is there
WithEmptyDir(tree, dir) ==
    IF \E p \in TreeFilePaths(tree) : IsPrefix(dir, p) \/ IsPrefix(p, dir) THEN tree
    ELSE LET withFile == InsertFile(tree.root.d, Append(dir, "x"), 1, 1)
         IN  remove_at(ChecksumTree(tree.version, Directory(withFile)), Append(dir, "x"))

ReconcilePaths == {<<".", "a">>, <<".", "d", "b">>, <<".", "d", "n", "h">>, <<".", "d">>}

EmptyDirPath == <<".", "d">>

ReconcileTrees ==
    LET built == {from_flat_map(m) : m \in FlatMaps(ReconcilePaths)}
    IN  built \cup {WithEmptyDir(t, EmptyDirPath) : t \in built}

\* the paths of the literal scenarios, which lack the leading "." component:
\* "a/b.txt", "x.txt" and "y/z.txt"
ScenarioPaths == {<<"a", "b">>, <<"x">>, <<"y", "z">>}

ScenarioTrees == {from_flat_map(m) : m \in FlatMaps(ScenarioPaths)}

\* the pairs (previous, next) given to reconcile
ReconcilePairs == (ReconcileTrees \X ReconcileTrees) \cup (ScenarioTrees \X ScenarioTrees)

\* versions "9" and "10" as character strings: "10" < "9" in string order
Versions == {<<57>>, <<49, 48>>}

WithVersion(tree, v) == ChecksumTree(v, tree.root)

\* the versions given to reconcile: "9", "10" and "1", a prefix of "10"
ReconcileVersions == Versions \cup {<<49>>}

ArgsDefault ==
    [concurrency |-> 1, intermittent_checksum_upload |-> 0, skip |-> 0, skip_removal |-> FALSE,
     force |-> FALSE]

\* the options of a run past the read of the previous snapshot; force is read
\* only where that read fails
ArgsSet ==
    [concurrency : 1..MaxConcurrency, intermittent_checksum_upload : 0..MaxInterval,
     skip : 0..MaxSkip, skip_removal : BOOLEAN, force : {FALSE}]

NoTree == [none |-> TRUE]

\* no library call is under examination
NoCall == [fn |-> "none"]

reconVars == <<previous_checksum, to_reconcile, stack, actions>>

engineVars == <<has_error, mkdir_i, file_size, transports, put_actions, put_task, remove_actions,
                remove_task, finished_paths, finished_guard, remote, attempts, failed>>

vars == <<pc, args, connections, call, previous_checksum_tree, next_checksum_tree, scanned, reconVars, engineVars>>

\* the local state of main at position start, with the library call c under
\* examination
InitLocal(start, c, next, a, sizes) ==
    /\ pc = start
    /\ args = a
    /\ next_checksum_tree = next
    /\ scanned = next
    /\ previous_checksum = DefaultElement
    /\ to_reconcile = <<>>
    /\ stack = <<>>
    /\ actions = <<>>
    /\ has_error = FALSE
    /\ mkdir_i = 0
    /\ file_size = sizes
    /\ transports = 0
    /\ put_actions = <<>>
    /\ put_task = <<>>
    /\ remove_actions = <<>>
    /\ remove_task = <<>>
    /\ finished_paths = {}
    /\ finished_guard = 0
    /\ attempts = <<>>
    /\ failed = {}
    /\ connections = [opened |-> 1, closed |-> 0]
    /\ call = c

\* the state at position start once the persisted snapshot prev has been read
InitState(start, c, prev, next, a, sizes) ==
    /\ InitLocal(start, c, next, a, sizes)
    /\ previous_checksum_tree = prev
    /\ remote = [tree |-> prev, kind |-> "previous", finished |-> {}]

\* the state of main when it is about to call Reconciler::reconcile
InitWith(prev, next, a, sizes) == InitState("reconcile", NoCall, prev, next, a, sizes)

InitReconcile ==
    \E pair \in ReconcilePairs, pv \in ReconcileVersions, nv \in ReconcileVersions :
        InitWith(WithVersion(pair[1], pv), WithVersion(pair[2], nv), ArgsDefault, <<>>)

----------------------------------------------------------------------------
(* Reconciler::reconcile, one step per loop iteration.                     *)

\* check_version, then the queue is seeded with next's root
Reconcile ==
    /\ pc = "reconcile"
    /\ IF check_version(previous_checksum_tree.version, next_checksum_tree.version)
       THEN /\ pc' = "diff"
            /\ previous_checksum' = previous_checksum_tree.root
            /\ to_reconcile' = <<[path |-> <<>>, element |-> next_checksum_tree.root]>>
       ELSE /\ pc' = "version_mismatch"
            /\ UNCHANGED <<previous_checksum, to_reconcile>>
    /\ UNCHANGED <<args, connections, call, previous_checksum_tree, next_checksum_tree, scanned, stack, actions,
                   engineVars>>

\* ChecksumElement::Directory arm: enqueue the children in the map's iteration order
DiffDirectory ==
    /\ pc = "diff"
    /\ to_reconcile # <<>>
    /\ IsDirectory(Head(to_reconcile).element)
    /\ \E order \in Perms(DOMAIN Head(to_reconcile).element.d) :
          to_reconcile' = Tail(to_reconcile) \o
              [i \in 1..Len(order) |->
                  [path |-> Append(Head(to_reconcile).path, order[i]),
                   element |-> Head(to_reconcile).element.d[order[i]]]]
    /\ UNCHANGED <<pc, args, connections, call, previous_checksum_tree, next_checksum_tree, scanned,
                   previous_checksum, stack, actions, engineVars>>

\* ChecksumElement::File arm
DiffFile ==
    /\ pc = "diff"
    /\ to_reconcile # <<>>
    /\ IsFile(Head(to_reconcile).element)
    /\ LET r == ReconcileFile(previous_checksum, actions, Head(to_reconcile).path,
                              Head(to_reconcile).element.f)
       IN  IF r = Panic
           THEN /\ pc' = "panic"
                /\ UNCHANGED <<previous_checksum, actions, to_reconcile>>
           ELSE /\ previous_checksum' = r.previous_checksum
                /\ actions' = r.actions
                /\ to_reconcile' = Tail(to_reconcile)
                /\ pc' = pc
    /\ UNCHANGED <<args, connections, call, previous_checksum_tree, next_checksum_tree, scanned, stack, engineVars>>

\* the queue is empty: the deletion pass starts from what is left of previous
StartDeletions ==
    /\ pc = "diff"
    /\ to_reconcile = <<>>
    /\ stack' = <<[path |-> <<>>, element |-> previous_checksum]>>
    /\ pc' = "deletions"
    /\ UNCHANGED <<args, connections, call, previous_checksum_tree, next_checksum_tree, scanned,
                   previous_checksum, to_reconcile, actions, engineVars>>

\* deletion pass, Directory: push the children in the map's iteration order
DeletionDirectory ==
    /\ pc = "deletions"
    /\ stack # <<>>
    /\ IsDirectory(Last(stack).element)
    /\ \E order \in Perms(DOMAIN Last(stack).element.d) :
          stack' = Front(stack) \o Children(Last(stack).element.d, Last(stack).path, order)
    /\ UNCHANGED <<pc, args, connections, call, previous_checksum_tree, next_checksum_tree, scanned,
                   previous_checksum, to_reconcile, actions, engineVars>>

\* deletion pass, File: a leftover file is removed
DeletionFile ==
    /\ pc = "deletions"
    /\ stack # <<>>
    /\ IsFile(Last(stack).element)
    /\ actions' = push(actions, Remove(Last(stack).path))
    /\ stack' = Front(stack)
    /\ UNCHANGED <<pc, args, connections, call, previous_checksum_tree, next_checksum_tree, scanned,
                   previous_checksum, to_reconcile, engineVars>>

\* reconcile returns Ok(actions)
ReconcileReturn ==
    /\ pc = "deletions"
    /\ stack = <<>>
    /\ pc' = "reconciled"
    /\ UNCHANGED <<args, connections, call, previous_checksum_tree, next_checksum_tree, scanned, reconVars,
                   engineVars>>

NextReconcile ==
    \/ Reconcile
    \/ DiffDirectory
    \/ DiffFile
    \/ StartDeletions
    \/ DeletionDirectory
    \/ DeletionFile
    \/ ReconcileReturn

SpecReconcile == InitReconcile /\ [][NextReconcile]_vars

----------------------------------------------------------------------------
(* ChecksumTree::remove_at called on its own.                              *)

\* the paths given to remove_at: files and directories of the trees, the
\* empty path, a path through a missing directory, a path through a file, a
\* missing name in a directory, and a path that lacks the leading "."
RemoveAtPaths ==
    {<<>>, <<".">>, <<".", "a">>, <<".", "d">>, <<".", "d", "b">>, <<".", "d", "n">>,
     <<".", "d", "n", "h">>, <<".", "z", "b">>, <<".", "a", "x">>, <<".", "d", "z">>,
     <<"d", "b">>}

InitRemoveAt ==
    \E tree \in ReconcileTrees, path \in RemoveAtPaths :
        InitState("remove_at", [fn |-> "remove_at", path |-> path], tree, tree, ArgsDefault, <<>>)

\* tree.remove_at(path)
RemoveAtCall ==
    /\ pc = "remove_at"
    /\ next_checksum_tree' = remove_at(next_checksum_tree, call.path)
    /\ pc' = "returned"
    /\ UNCHANGED <<args, connections, call, previous_checksum_tree, scanned, reconVars, engineVars>>

NextRemoveAt == RemoveAtCall

SpecRemoveAt == InitRemoveAt /\ [][NextRemoveAt]_vars

----------------------------------------------------------------------------
(* The execution engine: main, after reconcile (src/src/main.rs).          *)

Range(s) == {s[i] : i \in 1..Len(s)}

Max(a, b) == IF a > b THEN a ELSE b

OfType(todo, t) == SelectSeq(todo, LAMBDA a : a.type = t)

PathsOf(acts) == [i \in 1..Len(acts) |-> acts[i].path]

create_directory_actions == OfType(actions, "Mkdir")

\* mutant: one connection and one task more than configured
ConcurrencyPlusOne == args.concurrency + 1

\* args.concurrency, as used for the pool size and for buffer_unordered
Concurrency == args.concurrency

\* mutant: the Mkdir actions are not counted against the offset
PutSkipAll == args.skip

\* number of Put actions the skip offset drops: (skip - #mkdir).max(0)
PutSkip == Max(args.skip - Len(create_directory_actions), 0)

\* number of Remove actions the skip offset drops: (skip - #mkdir - #put).max(0)
RemoveSkip == Max(args.skip - Len(create_directory_actions) - Len(put_actions), 0)

RECURSIVE InsertSorted(_, _, _)
\* x placed behind every element that is not larger (slice::sort_by is stable and
\* only asks whether the comparator says Less)
InsertSorted(sorted, x, size) ==
    IF sorted = <<>> THEN <<x>>
    ELSE IF size[x] < size[Last(sorted)]
         THEN Append(InsertSorted(Front(sorted), x, size), Last(sorted))
         ELSE Append(sorted, x)

RECURSIVE SortBySize(_, _)
SortBySize(paths, size) ==
    IF paths = <<>> THEN <<>>
    ELSE InsertSorted(SortBySize(Front(paths), size), Last(paths), size)

\* the task states in which a spawned task has not completed
Running(tasks) == {i \in DOMAIN tasks : tasks[i].pc \notin {"idle", "skipped", "done", "panicked"}}

Idle(tasks) == {i \in DOMAIN tasks : tasks[i].pc = "idle"}

Min(S) == CHOOSE x \in S : \A y \in S : x <= y

\* mutant: the skip offset is not applied to the stream
NewTasksAllIdle(n, skipped) ==
    [i \in 1..n |-> [pc |-> "idle", transport |-> 0, snapshot |-> NoTree, checkpoint_at |-> 0]]

\* checkpoint_at is the size of finished_paths under which the task built
\* its intermittent checksum, 0 while it has built none
NewTasks(n, skipped) ==
    [i \in 1..n |-> [pc |-> IF i <= skipped THEN "skipped" ELSE "idle",
                     transport |-> 0, snapshot |-> NoTree, checkpoint_at |-> 0]]

Bump(a) == attempts' = [attempts EXCEPT ![a] = @ + 1]

\* mutant: the clone is persisted as it is
IntermittentChecksumUnfiltered(clone, todo, finished) == clone

\* mutant: the finished paths are retracted, the pending ones kept
IntermittentChecksumInverted(clone, todo, finished) ==
    LET done == SelectSeq(todo, LAMBDA a : a.type # "Mkdir" /\ a.path \in finished)
    IN  RemoveAll(clone, PathsOf(done))

\* the clone of the working tree with every Put and Remove path of todo that
\* is not finished retracted
IntermittentChecksum(clone, todo, finished) ==
    LET pending == SelectSeq(todo, LAMBDA a : a.type # "Mkdir" /\ a.path \notin finished)
    IN  RemoveAll(clone, PathsOf(pending))

\* mutant: the run goes on with an empty list
is_empty_never(todo) == FALSE

\* Vec::is_empty of the list reconcile returned
is_empty(todo) == todo = <<>>

\* todo.is_empty(): nothing to do, main returns Ok
CheckTodo ==
    /\ pc = "reconciled"
    /\ IF is_empty(actions)
       THEN pc' = "ok" /\ UNCHANGED attempts
       ELSE pc' = "mkdir" /\ attempts' = [a \in Range(actions) |-> 0]
    /\ UNCHANGED <<args, connections, call, previous_checksum_tree, next_checksum_tree, scanned, reconVars,
                   has_error, mkdir_i, file_size, transports, put_actions, put_task,
                   remove_actions, remove_task, finished_paths, finished_guard, remote, failed>>

\* mutant: a failed Mkdir retracts the directory from the working tree
MkdirFailedRetract(tree, path) == remove_at(tree, path)

\* the working tree after the Err arm of a Mkdir: the arm reports the error
\* and sets has_error
MkdirFailed(tree, path) == tree

\* one iteration of the Mkdir loop
MkdirStep ==
    /\ pc = "mkdir"
    /\ mkdir_i < Len(create_directory_actions)
    /\ mkdir_i' = mkdir_i + 1
    /\ IF mkdir_i < args.skip
       THEN UNCHANGED <<has_error, attempts, failed, next_checksum_tree>>
       ELSE /\ Bump(create_directory_actions[mkdir_i + 1])
            /\ \E ok \in BOOLEAN :
                  IF ok THEN UNCHANGED <<has_error, failed, next_checksum_tree>>
                  ELSE /\ has_error' = TRUE
                       /\ failed' = failed \cup {create_directory_actions[mkdir_i + 1]}
                       /\ next_checksum_tree' =
                              MkdirFailed(next_checksum_tree,
                                          create_directory_actions[mkdir_i + 1].path)
    /\ UNCHANGED <<pc, args, connections, call, previous_checksum_tree, scanned, reconVars,
                   file_size, transports, put_actions, put_task, remove_actions, remove_task,
                   finished_paths, finished_guard, remote>>

\* make_transport returned n transports
Made(n) == [connections EXCEPT !.opened = @ + n]

\* the Mkdir loop is over: the pool is made (try_join_all(..)? returns the
\* error of a connection that cannot be made), the Put actions are sorted by size
StartPuts ==
    /\ pc = "mkdir"
    /\ mkdir_i = Len(create_directory_actions)
    /\ \E made \in 0..Concurrency :
          /\ connections' = Made(made)
          /\ IF made = Concurrency
             THEN /\ transports' = Concurrency
                  /\ put_actions' = SortBySize(PathsOf(OfType(actions, "Put")), file_size)
                  /\ put_task' = NewTasks(Len(OfType(actions, "Put")), PutSkip)
                  /\ pc' = "put"
             ELSE /\ pc' = "connect_error"
                  /\ UNCHANGED <<transports, put_actions, put_task>>
    /\ UNCHANGED <<args, call, previous_checksum_tree, next_checksum_tree, scanned, reconVars,
                   has_error, mkdir_i, file_size, remove_actions, remove_task, finished_paths,
                   finished_guard, remote, attempts, failed>>

putFrame == <<pc, args, connections, call, previous_checksum_tree, scanned, reconVars, mkdir_i, file_size, put_actions,
              remove_actions, remove_task>>

\* buffer_unordered polls the next tokio::spawn while fewer than concurrency run
SpawnPut ==
    /\ pc = "put"
    /\ Idle(put_task) # {}
    /\ Cardinality(Running(put_task)) < Concurrency
    /\ put_task' = [put_task EXCEPT ![Min(Idle(put_task))].pc = "spawned"]
    /\ UNCHANGED <<putFrame, next_checksum_tree, has_error, transports, finished_paths,
                   finished_guard, remote, attempts, failed>>

\* transports.lock().await.pop().unwrap(), then transport.write is called
PutAcquire(i) ==
    /\ pc = "put"
    /\ put_task[i].pc = "spawned"
    /\ IF transports = 0
       THEN /\ put_task' = [put_task EXCEPT ![i].pc = "panicked"]
            /\ UNCHANGED <<transports, attempts>>
       ELSE /\ put_task' = [put_task EXCEPT ![i].pc = "writing", ![i].transport = 1]
            /\ transports' = transports - 1
            /\ Bump(Put(put_actions[i]))
    /\ UNCHANGED <<putFrame, next_checksum_tree, has_error, finished_paths, finished_guard,
                   remote, failed>>

\* write returned Ok: the path is marked finished
PutWriteOk(i) ==
    /\ pc = "put"
    /\ put_task[i].pc = "writing"
    /\ finished_guard = 0
    /\ finished_paths' = finished_paths \cup {put_actions[i]}
    /\ put_task' = [put_task EXCEPT ![i].pc =
                       IF args.intermittent_checksum_upload > 0 THEN "check_len" ELSE "release"]
    /\ UNCHANGED <<putFrame, next_checksum_tree, has_error, transports, finished_guard,
                   remote, attempts, failed>>

\* mutant: a failed Put leaves the working tree as it is
RetractNothing(tree, path) == tree

\* mutant: a failed Put retracts the directory that holds the file
RetractParent(tree, path) == remove_at(tree, Front(path))

\* the working tree after the Err arm of a Put
Retract(tree, path) == remove_at(tree, path)

\* write returned Err: the path is retracted from the working tree
PutWriteErr(i) ==
    /\ pc = "put"
    /\ put_task[i].pc = "writing"
    /\ next_checksum_tree' = Retract(next_checksum_tree, put_actions[i])
    /\ has_error' = TRUE
    /\ failed' = failed \cup {Put(put_actions[i])}
    /\ put_task' = [put_task EXCEPT ![i].pc = "release"]
    /\ UNCHANGED <<putFrame, transports, finished_paths, finished_guard, remote, attempts>>

\* finished_paths.lock().await.len() > 0
PutCheckLen(i) ==
    /\ pc = "put"
    /\ put_task[i].pc = "check_len"
    /\ finished_guard = 0
    /\ put_task' = [put_task EXCEPT ![i].pc =
                       IF Cardinality(finished_paths) > 0 THEN "check_mod" ELSE "release"]
    /\ UNCHANGED <<putFrame, next_checksum_tree, has_error, transports, finished_paths,
                   finished_guard, remote, attempts, failed>>

\* finished_paths.lock().await.len() % intermittent_checksum_upload == 0
PutCheckMod(i) ==
    /\ pc = "put"
    /\ put_task[i].pc = "check_mod"
    /\ finished_guard = 0
    /\ put_task' = [put_task EXCEPT ![i].pc =
                       IF Cardinality(finished_paths) % args.intermittent_checksum_upload = 0
                       THEN "clone" ELSE "release"]
    /\ UNCHANGED <<putFrame, next_checksum_tree, has_error, transports, finished_paths,
                   finished_guard, remote, attempts, failed>>

\* next_checksum_tree.lock().await.clone()
PutClone(i) ==
    /\ pc = "put"
    /\ put_task[i].pc = "clone"
    /\ put_task' = [put_task EXCEPT ![i].pc = "lock_finished",
                                    ![i].snapshot = next_checksum_tree]
    /\ UNCHANGED <<putFrame, next_checksum_tree, has_error, transports, finished_paths,
                   finished_guard, remote, attempts, failed>>

\* finished_paths is locked and the unfinished paths are removed from the clone
PutBuildCheckpoint(i) ==
    /\ pc = "put"
    /\ put_task[i].pc = "lock_finished"
    /\ finished_guard = 0
    /\ finished_guard' = i
    /\ put_task' = [put_task EXCEPT ![i].pc = "ckwrite",
                                    ![i].checkpoint_at = Cardinality(finished_paths),
                                    ![i].snapshot = IntermittentChecksum(put_task[i].snapshot,
                                                                         actions, finished_paths)]
    /\ UNCHANGED <<putFrame, next_checksum_tree, has_error, transports, finished_paths,
                   remote, attempts, failed>>

\* mutant: a checkpoint that cannot be written counts as an error of the run
CheckpointFailedFlagged(flag) == TRUE

\* has_error after the Err arm of the checkpoint write: the arm only sets the
\* message of the progress bar
CheckpointFailed(flag) == flag

\* transport.write_last_checksum(intermittent_checksum); the guard is dropped
PutCheckpointWrite(i) ==
    /\ pc = "put"
    /\ put_task[i].pc = "ckwrite"
    /\ \E ok \in BOOLEAN :
          IF ok
          THEN /\ remote' = [tree |-> put_task[i].snapshot, kind |-> "checkpoint",
                             finished |-> finished_paths]
               /\ UNCHANGED has_error
          ELSE /\ has_error' = CheckpointFailed(has_error)
               /\ UNCHANGED remote
    /\ finished_guard' = 0
    /\ put_task' = [put_task EXCEPT ![i].pc = "release", ![i].snapshot = NoTree]
    /\ UNCHANGED <<putFrame, next_checksum_tree, transports, finished_paths,
                   attempts, failed>>

\* mutant: a task that runs after an error was recorded completes without
\* giving its connection back
push_transport_unless_error(pool, task) ==
    IF has_error THEN pool ELSE pool + task.transport

\* mutant: a task that completes keeps its connection
push_transport_kept(pool, task) == pool

\* transports.lock().await.push(transport): the pool afterwards
push_transport(pool, task) == pool + task.transport

\* transports.lock().await.push(transport): the task completes
PutRelease(i) ==
    /\ pc = "put"
    /\ put_task[i].pc = "release"
    /\ transports' = push_transport(transports, put_task[i])
    /\ put_task' = [put_task EXCEPT ![i].pc = "done", ![i].transport = 0]
    /\ UNCHANGED <<putFrame, next_checksum_tree, has_error, finished_paths, finished_guard,
                   remote, attempts, failed>>

\* mutant: the stream is left as soon as every task is spawned
NoneIdle(tasks) == \A i \in DOMAIN tasks : tasks[i].pc # "idle"

\* mutant: the stream also waits for the actions the skip offset filtered out
NoneSkipped(tasks) == \A i \in DOMAIN tasks : tasks[i].pc \in {"done", "panicked"}

\* every JoinHandle of the Put stream has resolved
AllCollected(tasks) == \A i \in DOMAIN tasks : tasks[i].pc \in {"skipped", "done", "panicked"}

\* mutant: a recorded error ends the run when a stream is collected
AnyPanickedOrFailed(tasks) == has_error \/ \E i \in DOMAIN tasks : tasks[i].pc = "panicked"

\* the collected results hold a JoinError
AnyPanicked(tasks) == \E i \in DOMAIN tasks : tasks[i].pc = "panicked"

\* the Put stream is collected; the Remove actions are filtered (or skipped)
StartRemoves ==
    /\ pc = "put"
    /\ AllCollected(put_task)
    /\ IF AnyPanicked(put_task)
       THEN pc' = "join_error" /\ UNCHANGED <<remove_actions, remove_task>>
       ELSE IF args.skip_removal
       THEN pc' = "final" /\ UNCHANGED <<remove_actions, remove_task>>
       ELSE /\ pc' = "remove"
            /\ remove_actions' = PathsOf(OfType(actions, "Remove"))
            /\ remove_task' = NewTasks(Len(OfType(actions, "Remove")), RemoveSkip)
    /\ UNCHANGED <<args, connections, call, previous_checksum_tree, next_checksum_tree, scanned, reconVars,
                   has_error, mkdir_i, file_size, transports, put_actions, put_task,
                   finished_paths, finished_guard, remote, attempts, failed>>

removeFrame == <<pc, args, connections, call, previous_checksum_tree, next_checksum_tree, scanned, reconVars,
                 mkdir_i, file_size, put_actions, put_task, remove_actions, finished_paths,
                 finished_guard, remote>>

SpawnRemove ==
    /\ pc = "remove"
    /\ Idle(remove_task) # {}
    /\ Cardinality(Running(remove_task)) < Concurrency
    /\ remove_task' = [remove_task EXCEPT ![Min(Idle(remove_task))].pc = "spawned"]
    /\ UNCHANGED <<removeFrame, has_error, transports, attempts, failed>>

\* transports.lock().await.pop().unwrap(), then transport.remove is called
RemoveAcquire(i) ==
    /\ pc = "remove"
    /\ remove_task[i].pc = "spawned"
    /\ IF transports = 0
       THEN /\ remove_task' = [remove_task EXCEPT ![i].pc = "panicked"]
            /\ UNCHANGED <<transports, attempts>>
       ELSE /\ remove_task' = [remove_task EXCEPT ![i].pc = "removing", ![i].transport = 1]
            /\ transports' = transports - 1
            /\ Bump(Remove(remove_actions[i]))
    /\ UNCHANGED <<removeFrame, has_error, failed>>

\* mutant: a failed Remove puts the file back into the working tree
RemoveFailedKeep(tree, path) ==
    ChecksumTree(tree.version, Directory(InsertFile(tree.root.d, path, 1, 1)))

\* the working tree after the Err arm of a Remove: the arm reports the error
\* and sets has_error
RemoveFailed(tree, path) == tree

\* transport.remove returned
RemoveResult(i) ==
    /\ pc = "remove"
    /\ remove_task[i].pc = "removing"
    /\ remove_task' = [remove_task EXCEPT ![i].pc = "release"]
    /\ \E ok \in BOOLEAN :
          IF ok THEN UNCHANGED <<has_error, failed, next_checksum_tree>>
          ELSE /\ has_error' = TRUE
               /\ failed' = failed \cup {Remove(remove_actions[i])}
               /\ next_checksum_tree' = RemoveFailed(next_checksum_tree, remove_actions[i])
    /\ UNCHANGED <<pc, args, connections, call, previous_checksum_tree, scanned, reconVars,
                   mkdir_i, file_size, put_actions, put_task, remove_actions, finished_paths,
                   finished_guard, remote, transports, attempts>>

RemoveRelease(i) ==
    /\ pc = "remove"
    /\ remove_task[i].pc = "release"
    /\ transports' = push_transport(transports, remove_task[i])
    /\ remove_task' = [remove_task EXCEPT ![i].pc = "done", ![i].transport = 0]
    /\ UNCHANGED <<removeFrame, has_error, attempts, failed>>

\* the Remove stream is collected
EndRemoves ==
    /\ pc = "remove"
    /\ AllCollected(remove_task)
    /\ pc' = IF AnyPanicked(remove_task) THEN "join_error" ELSE "final"
    /\ UNCHANGED <<args, connections, call, previous_checksum_tree, next_checksum_tree, scanned, reconVars,
                   engineVars>>

\* mutant: the local scan is persisted, not the working tree
FinalSnapshotScanned == scanned

\* the tree given to the final write_last_checksum
FinalSnapshot == next_checksum_tree

\* make_transport(&args)?, then write_last_checksum(..)? of the working tree
FinalWrite ==
    /\ pc = "final"
    /\ \E connected, ok \in BOOLEAN :
          IF ~connected
          THEN pc' = "connect_error" /\ UNCHANGED <<remote, connections>>
          ELSE /\ connections' = Made(1)
               /\ IF ok
                  THEN /\ remote' = [tree |-> FinalSnapshot, kind |-> "final",
                                     finished |-> finished_paths]
                       /\ pc' = "close"
                  ELSE /\ pc' = "write_error"
                       /\ UNCHANGED remote
    /\ UNCHANGED <<args, call, previous_checksum_tree, next_checksum_tree, scanned, reconVars,
                   has_error, mkdir_i, file_size, transports, put_actions, put_task,
                   remove_actions, remove_task, finished_paths, finished_guard, attempts, failed>>

\* mutant: the error flag is not looked at
OutcomeIgnoresErrors(closed) == IF ~closed THEN "close_error" ELSE "ok"

\* how main ends after the final write: close()? fails, or the has_error check
\* panics with "There were errors", or Ok(())
Outcome(closed) == IF ~closed THEN "close_error" ELSE IF has_error THEN "failed" ELSE "ok"

\* transport.close(), then the has_error check that ends main
Close ==
    /\ pc = "close"
    /\ \E ok \in BOOLEAN : pc' = Outcome(ok)
    /\ connections' = [connections EXCEPT !.closed = @ + 1]
    /\ UNCHANGED <<args, call, previous_checksum_tree, next_checksum_tree, scanned, reconVars,
                   engineVars>>

Next ==
    \/ NextReconcile
    \/ CheckTodo
    \/ MkdirStep
    \/ StartPuts
    \/ SpawnPut
    \/ \E i \in DOMAIN put_task : PutAcquire(i)
    \/ \E i \in DOMAIN put_task : PutWriteOk(i)
    \/ \E i \in DOMAIN put_task : PutWriteErr(i)
    \/ \E i \in DOMAIN put_task : PutCheckLen(i)
    \/ \E i \in DOMAIN put_task : PutCheckMod(i)
    \/ \E i \in DOMAIN put_task : PutClone(i)
    \/ \E i \in DOMAIN put_task : PutBuildCheckpoint(i)
    \/ \E i \in DOMAIN put_task : PutCheckpointWrite(i)
    \/ \E i \in DOMAIN put_task : PutRelease(i)
    \/ StartRemoves
    \/ SpawnRemove
    \/ \E i \in DOMAIN remove_task : RemoveAcquire(i)
    \/ \E i \in DOMAIN remove_task : RemoveResult(i)
    \/ \E i \in DOMAIN remove_task : RemoveRelease(i)
    \/ EndRemoves
    \/ FinalWrite
    \/ Close

FileU == <<".", "u">>

FileA == <<".", "a">>

FileC == <<".", "c">>

FileE == <<".", "e">>

FileB == <<".", "d", "b">>

FileR == <<".", "r">>

FileS == <<".", "q", "s">>

\* the runs of the engine: previous and next as flat maps, and the local file sizes
EngineScenarios ==
    { [prev |-> (FileU :> 1) @@ (FileR :> 1),
       next |-> (FileU :> 1) @@ (FileC :> 1) @@ (FileB :> 1),
       size |-> (FileU :> 1) @@ (FileC :> 2) @@ (FileB :> 1)],
      [prev |-> (FileC :> 1) @@ (FileR :> 1) @@ (FileS :> 1),
       next |-> (FileA :> 1) @@ (FileC :> 2) @@ (FileE :> 1),
       size |-> (FileA :> 1) @@ (FileC :> 1) @@ (FileE :> 2)],
      [prev |-> (FileU :> 1), next |-> (FileU :> 1), size |-> (FileU :> 1)] }

Init ==
    \E s \in EngineScenarios, a \in ArgsSet, pv \in Versions :
        InitWith(WithVersion(from_flat_map(s.prev), pv), from_flat_map(s.next), a, s.size)

Spec == Init /\ [][Next]_vars

\* the tokio runtime keeps polling: main awaits its streams, a spawned task
\* that can run is run, and every transport call returns
Fairness == WF_vars(Next)

\* the runs examined for termination: the scenarios that start from a
\* snapshot holding ./u (one Mkdir, two Puts and one Remove, or nothing to
\* do), under every option
FairScenarios == {s \in EngineScenarios : FileU \in DOMAIN s.prev}

InitFair ==
    \E s \in FairScenarios, a \in ArgsSet, pv \in Versions :
        InitWith(WithVersion(from_flat_map(s.prev), pv), from_flat_map(s.next), a, s.size)

SpecFair == InitFair /\ [][Next]_vars /\ Fairness

\* the same runs against a snapshot written by any version: "9", "10", or "1",
\* which sorts before the client's
InitVersions ==
    \E s \in FairScenarios, a \in ArgsSet, pv \in ReconcileVersions :
        InitWith(WithVersion(from_flat_map(s.prev), pv), from_flat_map(s.next), a, s.size)

SpecVersions == InitVersions /\ [][Next]_vars

----------------------------------------------------------------------------
(* The read of the persisted snapshot, before reconcile.                   *)

\* what the checksum file holds on the remote: nothing (the read fails), bytes
\* that do not decode as a ChecksumTree, or an encoded ChecksumTree; the kind
\* "bytes" is a file whose content stored.bytes is given as written
StoredKinds == {"absent", "corrupt", "previous"}

\* ChecksumTree::default()
DefaultTree == ChecksumTree(ClientVersion, DefaultElement)

\* a read that takes every failure, of decoding too, for an absent file
read_last_checksum_lenient(stored) ==
    CASE stored.kind = "previous" -> [ok |-> TRUE, tree |-> stored.tree]
      [] stored.kind = "bytes" /\ from_slice(stored.bytes) # DecodeError ->
            [ok |-> TRUE, tree |-> from_slice(stored.bytes)]
      [] OTHER -> [ok |-> TRUE, tree |-> DefaultTree]

\* mutant: the error of the read is returned as the error of decoding is
read_last_checksum_strict(stored) ==
    CASE stored.kind \in {"absent", "corrupt"} -> [ok |-> FALSE, tree |-> NoTree]
      [] stored.kind = "bytes" /\ from_slice(stored.bytes) # DecodeError ->
            [ok |-> TRUE, tree |-> from_slice(stored.bytes)]
      [] stored.kind = "bytes" -> [ok |-> FALSE, tree |-> NoTree]
      [] OTHER -> [ok |-> TRUE, tree |-> stored.tree]

\* Transport::read_last_checksum: a failed read is dropped by ok() and gives
\* the default tree; a decoding failure is returned by transpose()?
read_last_checksum(stored) ==
    CASE stored.kind = "absent" -> [ok |-> TRUE, tree |-> DefaultTree]
      [] stored.kind = "corrupt" -> [ok |-> FALSE, tree |-> NoTree]
      [] stored.kind = "bytes" ->
            LET decoded == from_slice(stored.bytes)
            IN  IF decoded = DecodeError THEN [ok |-> FALSE, tree |-> NoTree]
                ELSE [ok |-> TRUE, tree |-> decoded]
      [] OTHER -> [ok |-> TRUE, tree |-> stored.tree]

ReadArgsSet ==
    {[a EXCEPT !.force = f] : a \in ArgsSet, f \in BOOLEAN}

\* main, connected and about to read the previous snapshot
InitRead ==
    \E s \in EngineScenarios, a \in ReadArgsSet, pv \in Versions, kind \in StoredKinds :
        /\ InitLocal("read_last_checksum", [fn |-> "read_last_checksum", stored |-> kind],
                     from_flat_map(s.next), a, s.size)
        /\ previous_checksum_tree = NoTree
        /\ remote = [tree |-> IF kind = "previous"
                               THEN WithVersion(from_flat_map(s.prev), pv) ELSE NoTree,
                     kind |-> kind, finished |-> {}]

\* let previous_checksum_tree = match transport.read_last_checksum(..).await
ReadLastChecksum ==
    /\ pc = "read_last_checksum"
    /\ LET r == read_last_checksum(remote)
       IN  IF r.ok
           THEN previous_checksum_tree' = r.tree /\ pc' = "reconcile"
           ELSE IF args.force
                THEN previous_checksum_tree' = DefaultTree /\ pc' = "reconcile"
                ELSE pc' = "read_panic" /\ UNCHANGED previous_checksum_tree
    /\ UNCHANGED <<args, connections, call, next_checksum_tree, scanned, reconVars, engineVars>>

NextRead ==
    \/ ReadLastChecksum
    \/ Next

SpecRead == InitRead /\ [][NextRead]_vars

----------------------------------------------------------------------------
(* The snapshot through the codec and through each transport.              *)

\* TransportType: the transports make_transport builds
Transports == {"ftp", "sftp", "local", "s3", "dry"}

NoBytes == [format |-> "none"]

\* the bytes write_last_checksum hands to write: AwsS3 and DryTransport
\* override the default and encode with to_gzip
write_last_checksum(transport, checksum_tree) ==
    IF transport \in {"s3", "dry"} THEN to_gzip(checksum_tree)
    ELSE to_string_pretty(checksum_tree)

\* the checksum file after write(checksum_filename, bytes) returned Ok:
\* DryTransport::write stores nothing
Written(transport, stored, bytes) ==
    IF transport = "dry" THEN stored
    ELSE [tree |-> NoTree, kind |-> "bytes", finished |-> {}, bytes |-> bytes]

\* read_last_checksum of a transport: DryTransport overrides the default
TransportReadLastChecksum(transport, stored) ==
    IF transport = "dry" THEN [ok |-> TRUE, tree |-> DefaultTree]
    ELSE read_last_checksum(stored)

\* the trees handed to the codec, under each version
CodecTrees == {WithVersion(t, v) : t \in ReconcileTrees \cup ScenarioTrees, v \in Versions}

\* a snapshot written with the discriminants "d" and "f", gzipped
ShortForm(tree) ==
    [format |-> "gzip", doc |-> [version |-> tree.version, root |-> SerializeShort(tree.root)]]

\* the calls: to_gzip then from_gzip; from_gzip of a short-form snapshot;
\* write_last_checksum then read_last_checksum of one transport
CodecCalls(tree) ==
    {[start |-> "to_gzip", fn |-> "gzip", transport |-> "none", bytes |-> NoBytes],
     [start |-> "from_gzip", fn |-> "from_gzip", transport |-> "none", bytes |-> ShortForm(tree)]}
    \cup {[start |-> "write_last_checksum", fn |-> "transport", transport |-> t, bytes |-> NoBytes] :
              t \in Transports}

InitCodec ==
    \E tree \in CodecTrees :
        \E c \in CodecCalls(tree) :
            /\ InitLocal(c.start, [fn |-> c.fn, transport |-> c.transport, bytes |-> c.bytes],
                         tree, ArgsDefault, <<>>)
            /\ previous_checksum_tree = NoTree
            /\ remote = [tree |-> NoTree, kind |-> "absent", finished |-> {}]

\* let bytes = tree.to_gzip()
ToGzipCall ==
    /\ pc = "to_gzip"
    /\ call' = [call EXCEPT !.bytes = to_gzip(next_checksum_tree)]
    /\ pc' = "from_gzip"
    /\ UNCHANGED <<args, connections, previous_checksum_tree, next_checksum_tree, scanned,
                   reconVars, engineVars>>

\* ChecksumTree::from_gzip(&bytes)
FromGzipCall ==
    /\ pc = "from_gzip"
    /\ LET decoded == from_gzip(call.bytes)
       IN  IF decoded = DecodeError
           THEN pc' = "decode_error" /\ UNCHANGED previous_checksum_tree
           ELSE pc' = "returned" /\ previous_checksum_tree' = decoded
    /\ UNCHANGED <<args, connections, call, next_checksum_tree, scanned, reconVars, engineVars>>

\* transport.write_last_checksum(checksum_filename, &tree), the write succeeding
WriteLastChecksumCall ==
    /\ pc = "write_last_checksum"
    /\ remote' = Written(call.transport, remote,
                         write_last_checksum(call.transport, next_checksum_tree))
    /\ pc' = "read_last_checksum_back"
    /\ UNCHANGED <<args, connections, call, previous_checksum_tree, next_checksum_tree, scanned,
                   reconVars, has_error, mkdir_i, file_size, transports, put_actions, put_task,
                   remove_actions, remove_task, finished_paths, finished_guard, attempts, failed>>

\* transport.read_last_checksum(checksum_filename) of the same transport
ReadLastChecksumCall ==
    /\ pc = "read_last_checksum_back"
    /\ LET r == TransportReadLastChecksum(call.transport, remote)
       IN  IF r.ok
           THEN pc' = "returned" /\ previous_checksum_tree' = r.tree
           ELSE pc' = "decode_error" /\ UNCHANGED previous_checksum_tree
    /\ UNCHANGED <<args, connections, call, next_checksum_tree, scanned, reconVars, engineVars>>

NextCodec ==
    \/ ToGzipCall
    \/ FromGzipCall
    \/ WriteLastChecksumCall
    \/ ReadLastChecksumCall

SpecCodec == InitCodec /\ [][NextCodec]_vars

----------------------------------------------------------------------------
(* mkdir of each transport, against a remote side that holds the set dirs  *)
(* of directories below its base directory.                                *)

\* the directories a remote side may hold: "./d" and "./d/n"
MkdirPaths == {<<".", "d">>, <<".", "d", "n">>}

\* the base directory exists; below it a directory needs its parent
ParentExists(dirs, path) == Len(path) <= 2 \/ Front(path) \in dirs

\* the text of the error an FTP server sends for MKD of an existing directory
FtpReplies == {"550 File exists", "550 Directory already exists"}

\* e.to_string().contains("File exists")
ContainsFileExists(reply) == reply = "550 File exists"

\* transport.mkdir(path): the result and the directories afterwards.
\* AwsS3 and DryTransport return Ok(()) and make nothing; LocalFilesystem
\* calls create_dir and SFtp calls sftp.mkdir, both returning the error of
\* an existing directory or a missing parent; Ftp ignores the error whose
\* text contains "File exists"
mkdir(transport, dirs, path, reply) ==
    CASE transport \in {"s3", "dry"} -> [ok |-> TRUE, dirs |-> dirs]
      [] transport \in {"local", "sftp"} ->
            IF path \notin dirs /\ ParentExists(dirs, path)
            THEN [ok |-> TRUE, dirs |-> dirs \cup {path}]
            ELSE [ok |-> FALSE, dirs |-> dirs]
      [] OTHER ->
            IF path \in dirs THEN [ok |-> ContainsFileExists(reply), dirs |-> dirs]
            ELSE IF ParentExists(dirs, path) THEN [ok |-> TRUE, dirs |-> dirs \cup {path}]
            ELSE [ok |-> FALSE, dirs |-> dirs]

\* a Mkdir action is about to run for the first of two times
InitMkdir ==
    \E t \in Transports, path \in MkdirPaths, reply \in FtpReplies :
        \E dirs \in {D \in SUBSET MkdirPaths : \A p \in D : ParentExists(D, p)} :
            InitState("mkdir_call",
                      [fn |-> "mkdir", transport |-> t, path |-> path, reply |-> reply,
                       dirs |-> dirs, count |-> 0, existed |-> FALSE, ok |-> TRUE],
                      DefaultTree, DefaultTree, ArgsDefault, <<>>)

\* one pass of the Mkdir arm: transport.mkdir(path), has_error on Err
MkdirCall ==
    /\ pc = "mkdir_call"
    /\ LET r == mkdir(call.transport, call.dirs, call.path, call.reply)
       IN  /\ call' = [call EXCEPT !.dirs = r.dirs, !.count = @ + 1,
                                   !.existed = call.path \in call.dirs, !.ok = r.ok]
           /\ has_error' = (has_error \/ ~r.ok)
    /\ pc' = IF call.count = 1 THEN "returned" ELSE "mkdir_call"
    /\ UNCHANGED <<args, connections, previous_checksum_tree, next_checksum_tree, scanned,
                   reconVars, mkdir_i, file_size, transports, put_actions, put_task,
                   remove_actions, remove_task, finished_paths, finished_guard, remote,
                   attempts, failed>>

NextMkdir == MkdirCall

SpecMkdir == InitMkdir /\ [][NextMkdir]_vars

----------------------------------------------------------------------------
(* ChecksumTree::from(map) under every iteration order of the map.         *)

\* the paths of the flat maps: with and without the leading ".", one to
\* three directories deep, two of them in the same directory
FromPaths == ReconcilePaths \cup {<<"a", "b">>}

InitFrom ==
    \E map \in FlatMaps(FromPaths) :
        \E order \in Perms(DOMAIN map) :
            InitState("from", [fn |-> "from", map |-> map, order |-> order],
                      DefaultTree, DefaultTree, ArgsDefault, <<>>)

\* let next_checksum_tree: ChecksumTree = map.into()
FromCall ==
    /\ pc = "from"
    /\ next_checksum_tree' = from_flat_map_in(call.map, call.order)
    /\ pc' = "returned"
    /\ UNCHANGED <<args, connections, call, previous_checksum_tree, scanned, reconVars,
                   engineVars>>

NextFrom == FromCall

SpecFrom == InitFrom /\ [][NextFrom]_vars

----------------------------------------------------------------------------
(* Transport::write of Ftp and SFtp, and the arm of the Put task that      *)
(* takes its result.                                                       *)

\* what reader.read(&mut buf) returns before the end of file: Ok(n) with
\* n > 0, Err of kind Interrupted, or another Err
ReadResults == {"data", "interrupted", "error"}

\* the source streams: the results of the reads in order, then Ok(0)
Sources == UNION {[1..n -> ReadResults] : n \in 0..MaxReads}

WriteErr == [ok |-> FALSE, n |-> 0]

RECURSIVE write_inner(_, _, _, _)
\* Ftp: the loop of write_inner from read i on, len chunks written so far;
\* Interrupted is retried, another Err is returned, and so is the error of
\* write_all or flush
write_inner(reads, sink_ok, i, len) ==
    IF i > Len(reads) THEN [ok |-> TRUE, n |-> len]
    ELSE CASE reads[i] = "data" ->
                IF sink_ok THEN write_inner(reads, sink_ok, i + 1, len + 1) ELSE WriteErr
           [] reads[i] = "interrupted" -> write_inner(reads, sink_ok, i + 1, len)
           [] OTHER -> WriteErr

RECURSIVE write_loop(_, _, _, _)
\* SFtp: while let Ok(len) = reader.read(&mut buf).await: the loop is left at
\* Ok(0) and at every Err, and Ok(read) is returned; write_all returns its error
write_loop(reads, sink_ok, i, read) ==
    IF i > Len(reads) THEN [ok |-> TRUE, n |-> read]
    ELSE IF reads[i] = "data"
         THEN IF sink_ok THEN write_loop(reads, sink_ok, i + 1, read + 1) ELSE WriteErr
         ELSE [ok |-> TRUE, n |-> read]

\* transport.write(path, reader, size): Ok(n) or Err. Ftp returns the error
\* of finalize_put_stream before the result of write_inner
write(transport, reads, sink_ok, finalize_ok) ==
    IF transport = "ftp"
    THEN IF finalize_ok THEN write_inner(reads, sink_ok, 1, 0) ELSE WriteErr
    ELSE write_loop(reads, sink_ok, 1, 0)

\* a Put task of ./c holds its connection and is about to call write
InitWrite ==
    \E t \in {"ftp", "sftp"}, reads \in Sources, sink_ok \in BOOLEAN, finalize_ok \in BOOLEAN :
        InitState("write_call",
                  [fn |-> "write", transport |-> t, path |-> FileC, reads |-> reads,
                   sink_ok |-> sink_ok, finalize_ok |-> finalize_ok, result |-> WriteErr],
                  DefaultTree, from_flat_map((FileU :> 1) @@ (FileC :> 1)), ArgsDefault,
                  (FileU :> 1) @@ (FileC :> 1))

\* transport.write(..).await
WriteCall ==
    /\ pc = "write_call"
    /\ call' = [call EXCEPT !.result = write(call.transport, call.reads, call.sink_ok,
                                             call.finalize_ok)]
    /\ pc' = "write_returned"
    /\ UNCHANGED <<args, connections, previous_checksum_tree, next_checksum_tree, scanned,
                   reconVars, engineVars>>

\* the match on the result: Ok marks the path finished, Err retracts it from
\* the working tree and sets has_error
WriteResult ==
    /\ pc = "write_returned"
    /\ IF call.result.ok
       THEN /\ finished_paths' = finished_paths \cup {call.path}
            /\ UNCHANGED <<next_checksum_tree, has_error>>
       ELSE /\ next_checksum_tree' = Retract(next_checksum_tree, call.path)
            /\ has_error' = TRUE
            /\ UNCHANGED finished_paths
    /\ pc' = "returned"
    /\ UNCHANGED <<args, connections, call, previous_checksum_tree, scanned, reconVars,
                   mkdir_i, file_size, transports, put_actions, put_task, remove_actions,
                   remove_task, finished_guard, remote, attempts, failed>>

NextWrite == WriteCall \/ WriteResult

SpecWrite == InitWrite /\ [][NextWrite]_vars

----------------------------------------------------------------------------
(* A second invocation over the same local files: it reads the snapshot    *)
(* the first run persisted and reconciles it with the same scan.           *)

\* the next invocation of main up to its call of reconcile: previous is the
\* persisted final snapshot, next is built again from the same flat map
Rerun ==
    /\ call = NoCall
    /\ pc \in {"ok", "failed", "close_error"}
    /\ remote.kind = "final"
    /\ call' = [fn |-> "rerun",
                failed |-> {a.path : a \in {x \in failed : x.type = "Put"}}]
    /\ previous_checksum_tree' = remote.tree
    /\ next_checksum_tree' = scanned
    /\ previous_checksum' = DefaultElement
    /\ to_reconcile' = <<>>
    /\ stack' = <<>>
    /\ actions' = <<>>
    /\ pc' = "reconcile"
    /\ UNCHANGED <<args, connections, scanned, engineVars>>

NextRerun ==
    \/ call = NoCall /\ Next
    \/ Rerun
    \/ call # NoCall /\ NextReconcile

SpecRerun == Init /\ [][NextRerun]_vars

----------------------------------------------------------------------------
(* Properties.                                                             *)

PutPaths == {a.path : a \in {x \in Range(actions) : x.type = "Put"}}

FailedPutPaths == {a.path : a \in {x \in failed : x.type = "Put"}}

\* main has returned or panicked after the engine ran (or found nothing to do)
Ended == pc \in {"ok", "failed", "write_error", "close_error", "join_error", "connect_error"}

\* main has ended and every connection it asked for was made
EndedConnected == Ended /\ pc # "connect_error"

\* the path p is a file with the same checksum in both trees
Unchanged(p) ==
    \E x \in TreeFiles(scanned) : x[1] = p /\ x \in TreeFiles(previous_checksum_tree)

\* C1. Transfer honesty: once the final snapshot is persisted, the path of
\* every Put whose write returned an error is not a file of it, though it is
\* a file of next.
C1_TransferHonesty ==
    remote.kind = "final" =>
        \A p \in FailedPutPaths :
            p \notin TreeFilePaths(remote.tree) /\ p \in TreeFilePaths(scanned)

C1_Witness ==
    /\ remote.kind = "final"
    /\ FailedPutPaths # {}
    /\ args.concurrency > 1
    /\ finished_paths # {}

\* C2. Checkpoint honesty: a checkpoint snapshot, when built and when
\* persisted, holds the path of a Put action only if the path was in the
\* finished set when the snapshot was built.
C2_CheckpointHonesty ==
    /\ \A i \in DOMAIN put_task :
          put_task[i].pc = "ckwrite" =>
              \A p \in PutPaths :
                  p \in TreeFilePaths(put_task[i].snapshot) => p \in finished_paths
    /\ remote.kind = "checkpoint" =>
          \A p \in PutPaths : p \in TreeFilePaths(remote.tree) => p \in remote.finished

\* a checkpoint is persisted that holds a finished Put and holds neither a
\* failed Put nor a Put that had not finished
C2_Witness ==
    /\ remote.kind = "checkpoint"
    /\ FailedPutPaths # {}
    /\ \E p \in PutPaths : p \in TreeFilePaths(remote.tree)
    /\ \E p \in PutPaths : p \notin remote.finished /\ p \notin FailedPutPaths

\* C3. Failure isolation: the final snapshot is next without the paths of
\* the failed Puts (unchanged files and successful Puts keep next's
\* checksum), and the error flag is set when a Put failed.
C3_FailureIsolation ==
    remote.kind = "final" =>
        /\ TreeFiles(remote.tree) = {x \in TreeFiles(scanned) : x[1] \notin FailedPutPaths}
        /\ FailedPutPaths # {} => has_error

C3_Witness ==
    /\ remote.kind = "final"
    /\ Cardinality(FailedPutPaths) = 1
    /\ \E p \in TreeFilePaths(remote.tree) : Unchanged(p)
    /\ \E p \in PutPaths : p \in finished_paths /\ p \in TreeFilePaths(remote.tree)

CheckedOut ==
    Cardinality({i \in DOMAIN put_task : put_task[i].transport # 0})
        + Cardinality({i \in DOMAIN remove_task : remove_task[i].transport # 0})

\* C4. Pool bound: at most args.concurrency pooled connections are checked
\* out at any time.
C4_PoolBound == CheckedOut <= args.concurrency

\* every connection is checked out while a Put is still waiting to be spawned
C4_Witness ==
    /\ args.concurrency > 1
    /\ CheckedOut = args.concurrency
    /\ Idle(put_task) # {}

IndexOf(seq, x) == CHOOSE i \in 1..Len(seq) : seq[i] = x

\* the action is dropped by the skip offset (or is a Remove with removal disabled)
Excluded(a) ==
    LET m == Len(create_directory_actions)
        n == Len(OfType(actions, "Put"))
    IN  CASE a.type = "Mkdir" -> IndexOf(create_directory_actions, a) <= args.skip
          [] a.type = "Put" -> IndexOf(put_actions, a.path) <= Max(args.skip - m, 0)
          [] a.type = "Remove" ->
                \/ args.skip_removal
                \/ IndexOf(PathsOf(OfType(actions, "Remove")), a.path) <= Max(args.skip - m - n, 0)

\* C5. No early abort: no action is attempted twice, and when the run ends
\* (the connections having been made) every action the skip offset does not
\* exclude has been attempted once, whichever actions failed.
C5_NoEarlyAbort ==
    /\ \A a \in DOMAIN attempts : attempts[a] <= 1
    /\ EndedConnected => \A a \in Range(actions) : ~Excluded(a) => attempts[a] = 1

\* the run ended with every action of the list failed
C5_Witness ==
    /\ EndedConnected
    /\ args.skip = 0
    /\ ~args.skip_removal
    /\ failed = Range(actions)
    /\ \E a \in failed : a.type = "Mkdir"
    /\ \E a \in failed : a.type = "Remove"

\* every task of the stream was skipped or has run to its end
Resolved(tasks) == \A i \in DOMAIN tasks : tasks[i].pc \in {"skipped", "done", "panicked"}

PutsCollected == pc \notin {"reconcile", "diff", "deletions", "reconciled", "mkdir"} /\ Resolved(put_task)

RemovesCollected == args.skip_removal \/ (pc # "put" /\ Resolved(remove_task))

PhasesFinished ==
    /\ mkdir_i = Len(create_directory_actions)
    /\ PutsCollected
    /\ RemovesCollected

\* C6 as stated: a failed action makes the run end with a failure signal, the
\* signal comes only after the three phases and after the final snapshot is
\* persisted; with no failed action and a successful final write the run ends
\* successfully.
C6_Original ==
    /\ (EndedConnected /\ failed # {}) => pc # "ok"
    /\ (EndedConnected /\ failed # {}) => (PhasesFinished /\ remote.kind = "final")
    /\ (EndedConnected /\ failed = {} /\ remote.kind = "final") => pc = "ok"

\* C6, amended: a run in which an action failed never ends successfully. Its
\* "There were errors" panic comes only after the three phases have finished,
\* the final snapshot is persisted and the connection closed; an error is
\* returned earlier only when a connection cannot be made (before the Put phase
\* or the final write), when the final write fails (the three phases finished,
\* nothing persisted) or when close fails (the final snapshot persisted). With
\* no failed action the run ends successfully unless one of these three fails.
C6_FailureSignal ==
    /\ (Ended /\ failed # {}) => pc \in {"failed", "write_error", "close_error", "connect_error"}
    /\ pc = "failed" => (failed # {} /\ PhasesFinished /\ remote.kind = "final")
    /\ pc = "close_error" => (PhasesFinished /\ remote.kind = "final")
    /\ pc = "write_error" => (PhasesFinished /\ remote.kind # "final")
    /\ pc = "connect_error" => remote.kind # "final"
    /\ (Ended /\ failed = {}) => pc \in {"ok", "write_error", "close_error", "connect_error"}

\* the run ends with the panic after a Mkdir, a Put and a Remove failed
C6_Witness ==
    /\ pc = "failed"
    /\ \E a \in failed : a.type = "Mkdir"
    /\ \E a \in failed : a.type = "Put"
    /\ \E a \in failed : a.type = "Remove"

Started(tasks) == \E i \in DOMAIN tasks : tasks[i].pc \notin {"idle", "skipped"}

FinalStarted ==
    \/ pc \in {"final", "close", "failed", "write_error", "close_error"}
    \/ remote.kind = "final"

\* C7. Phase barriers: a Put task has started only when the Mkdir loop is
\* over, a Remove task only when every Put task has completed (its checkpoint
\* write included), and the final write only when every Remove task has.
C7_PhaseBarriers ==
    /\ Started(put_task) => mkdir_i = Len(create_directory_actions)
    /\ Started(remove_task) => Resolved(put_task) /\ finished_guard = 0
    /\ FinalStarted => Resolved(put_task) /\ Resolved(remove_task)

\* a Remove is running after a run of Puts that wrote a checkpoint
C7_Witness ==
    /\ \E i \in DOMAIN remove_task : remove_task[i].pc = "removing"
    /\ remote.kind = "checkpoint"
    /\ Len(create_directory_actions) > 0
    /\ args.concurrency > 1

\* a name is a file in one of the two trees and a directory in the other
Clash ==
    \/ TreeFilePaths(previous_checksum_tree) \cap TreeDirs(next_checksum_tree) # {}
    \/ TreeDirs(previous_checksum_tree) \cap TreeFilePaths(next_checksum_tree) # {}

Count(acts, a) == Cardinality({i \in 1..Len(acts) : acts[i] = a})

PathsOfType(acts, t) == {a.path : a \in {x \in Range(acts) : x.type = t}}

\* C8. Idempotence: reconcile of a tree with itself never panics, passes the
\* version gate and builds an empty action list.
C8_Idempotence ==
    previous_checksum_tree = next_checksum_tree =>
        /\ pc \notin {"panic", "version_mismatch"}
        /\ actions = <<>>

\* reconcile(T, T) has returned for a T with a file and an empty directory
C8_Witness ==
    /\ pc = "reconciled"
    /\ previous_checksum_tree = next_checksum_tree
    /\ TreeFilePaths(next_checksum_tree) # {}
    /\ \E dir \in TreeDirs(next_checksum_tree) :
          \A p \in TreeFilePaths(next_checksum_tree) : ~IsPrefix(dir, p)

\* the files of next that are new or changed with respect to previous
NeedPut == {x[1] : x \in TreeFiles(next_checksum_tree) \ TreeFiles(previous_checksum_tree)}

\* C9. Put exactly for new or changed files: without a file/directory clash,
\* reconcile returns, with one Put for each file of next that previous lacks
\* or holds with another checksum, and no other Put.
C9_PutExactly ==
    ~Clash =>
        /\ pc # "panic"
        /\ pc = "reconciled" =>
              /\ PathsOfType(actions, "Put") = NeedPut
              /\ \A p \in NeedPut : Count(actions, Put(p)) = 1

\* a new file, a changed file and an unchanged file in one call
C9_Witness ==
    /\ pc = "reconciled"
    /\ ~Clash
    /\ \E p \in NeedPut : p \notin TreeFilePaths(previous_checksum_tree)
    /\ \E p \in NeedPut : p \in TreeFilePaths(previous_checksum_tree)
    /\ \E p \in TreeFilePaths(next_checksum_tree) : p \notin NeedPut

\* the files of previous that next does not hold
Leftover == TreeFilePaths(previous_checksum_tree) \ TreeFilePaths(next_checksum_tree)

\* C10. Remove exactly for leftovers: without a file/directory clash,
\* reconcile returns one Remove for each file of previous that is absent from
\* next and no other Remove: none for a file of next, none for a directory.
C10_RemoveExactly ==
    (~Clash /\ pc = "reconciled") =>
        /\ PathsOfType(actions, "Remove") = Leftover
        /\ \A p \in Leftover : Count(actions, Remove(p)) = 1

\* a leftover file three levels deep, beside a file that stays, while a
\* directory of previous is absent from next
C10_Witness ==
    /\ pc = "reconciled"
    /\ ~Clash
    /\ \E p \in Leftover : Len(p) > 3
    /\ TreeFilePaths(previous_checksum_tree) \cap TreeFilePaths(next_checksum_tree) # {}
    /\ TreeDirs(previous_checksum_tree) \ TreeDirs(next_checksum_tree) # {}

\* C11. Mkdir-before-Put ordering: in the list reconcile builds, a Mkdir(D)
\* stands at an earlier index than every Put(P) with P nested under D at any
\* depth, whatever the iteration order of the maps.
C11_MkdirBeforePut ==
    \A i, j \in 1..Len(actions) :
        (/\ actions[i].type = "Mkdir"
         /\ actions[j].type = "Put"
         /\ IsProperPrefix(actions[i].path, actions[j].path)) => i < j

\* reconcile has returned a Mkdir with two Puts under it, one of them two
\* levels below, and a Put outside it standing before the Mkdir
C11_Witness ==
    /\ pc = "reconciled"
    /\ \E i, j, k, l \in 1..Len(actions) :
          /\ actions[i].type = "Mkdir"
          /\ actions[j].type = "Put" /\ actions[k].type = "Put" /\ actions[l].type = "Put"
          /\ Len(actions[j].path) = Len(actions[i].path) + 1
          /\ Len(actions[k].path) = Len(actions[i].path) + 2
          /\ IsProperPrefix(actions[i].path, actions[j].path)
          /\ IsProperPrefix(actions[i].path, actions[k].path)
          /\ l < i

\* a < b in the order of strings: a is a proper prefix of b, or the first
\* character in which they differ is smaller in a
LexLess(a, b) ==
    \E k \in 0..Len(a) :
        /\ k <= Len(b)
        /\ SubSeq(a, 1, k) = SubSeq(b, 1, k)
        /\ IF k = Len(a) THEN k < Len(b) ELSE k < Len(b) /\ a[k + 1] < b[k + 1]

\* C12. Version gate: reconcile ends with the version-mismatch error exactly
\* when next.version is smaller than previous.version in string order,
\* whatever the trees hold, and then no action list is built.
C12_VersionGate ==
    /\ pc = "version_mismatch" =>
          /\ LexLess(next_checksum_tree.version, previous_checksum_tree.version)
          /\ actions = <<>>
    /\ (pc # "reconcile" /\ LexLess(next_checksum_tree.version, previous_checksum_tree.version))
          => pc = "version_mismatch"

\* the gate stopped next at "10" against previous at "9", the trees differing
C12_Witness ==
    /\ pc = "version_mismatch"
    /\ next_checksum_tree.version = <<49, 48>>
    /\ previous_checksum_tree.version = <<57>>
    /\ TreeFiles(next_checksum_tree) # TreeFiles(previous_checksum_tree)
    /\ TreeFiles(previous_checksum_tree) # {}

\* the walk of path p from the root of t ends at a node below the root
Present(t, p) == p \in TreeFilePaths(t) \cup TreeDirs(t)

\* C13. Retraction locality: remove_at(path) takes out the node the path
\* leads to, with everything below it, and nothing else: every other file
\* keeps its fingerprint and every other directory stays, emptied or not;
\* when the path leads to no node the tree is returned as it was.
C13_RetractionLocality ==
    (pc = "returned" /\ call.fn = "remove_at") =>
        /\ next_checksum_tree.version = scanned.version
        /\ Present(scanned, call.path) =>
              /\ TreeFiles(next_checksum_tree) =
                     {x \in TreeFiles(scanned) : ~IsPrefix(call.path, x[1])}
              /\ TreeDirs(next_checksum_tree) =
                     {d \in TreeDirs(scanned) : ~IsPrefix(call.path, d)}
        /\ ~Present(scanned, call.path) => next_checksum_tree = scanned

\* a file was removed from a directory that held nothing else: the directory
\* stays, empty, beside the other files of the tree
C13_Witness ==
    /\ pc = "returned"
    /\ call.fn = "remove_at"
    /\ call.path \in TreeFilePaths(scanned)
    /\ Len(call.path) = 4
    /\ Front(call.path) \in TreeDirs(next_checksum_tree)
    /\ \A x \in TreeFilePaths(next_checksum_tree) : ~IsPrefix(Front(call.path), x)
    /\ Cardinality(TreeFilePaths(next_checksum_tree)) = 2

\* C14. Re-run regenerates failed transfers: reconcile of the final snapshot
\* of a run without skip offset against the same next returns one Put for
\* each path whose Put failed in that run, and no other Put.
C14_RerunRegenerates ==
    (call.fn = "rerun" /\ args.skip = 0) =>
        /\ pc \notin {"panic", "version_mismatch"}
        /\ pc = "reconciled" =>
              /\ PathsOfType(actions, "Put") = call.failed
              /\ \A p \in call.failed : Count(actions, Put(p)) = 1

\* the re-run has reconciled after a run in which one Put failed in a new
\* directory and another Put succeeded
C14_Witness ==
    /\ call.fn = "rerun"
    /\ args.skip = 0
    /\ pc = "reconciled"
    /\ \E p \in call.failed : Len(p) = 3
    /\ \E p \in finished_paths : p \notin call.failed
    /\ actions # <<>>

\* C15 as stated: with previous the empty tree and next built from the flat
\* map {"a/b.txt": "h1"}, reconcile returns [Mkdir("a"), Put("a/b.txt")].
C15_Scenario1 ==
    (/\ pc = "reconciled"
     /\ previous_checksum_tree.root = DefaultElement
     /\ next_checksum_tree.root = from_flat_map(<<"a", "b">> :> 1).root)
        => actions = <<Mkdir(<<"a">>), Put(<<"a", "b">>)>>

\* every directory of t holds a file at some depth, as in a tree built from a
\* flat map
NoEmptyDirectory(t) == \A d \in TreeDirs(t) : \E p \in TreeFilePaths(t) : IsPrefix(d, p)

\* the directories of next below the first path component that previous lacks
MissingDirs == {d \in TreeDirs(next_checksum_tree) : Len(d) > 1 /\ d \notin TreeDirs(previous_checksum_tree)}

C17_ParentBeforeChild ==
    \A i, j \in 1..Len(actions) :
        (/\ actions[i].type = "Mkdir"
         /\ actions[j].type = "Mkdir"
         /\ IsProperPrefix(actions[i].path, actions[j].path)) => i < j

\* reconcile has returned the Mkdir of a directory, then a Put, then the
\* Mkdir of a directory below the first one
C17_Witness ==
    /\ pc = "reconciled"
    /\ \E i, j, k \in 1..Len(actions) :
          /\ i < k /\ k < j
          /\ actions[i].type = "Mkdir"
          /\ actions[k].type = "Put"
          /\ actions[j].type = "Mkdir"
          /\ IsProperPrefix(actions[i].path, actions[j].path)

\* the actions in the order the engine executes them: the Mkdirs in
\* reconciler order, the Puts sorted by size, the Removes in reconciler order
Execution ==
    create_directory_actions \o [i \in 1..Len(put_actions) |-> Put(put_actions[i])]
        \o OfType(actions, "Remove")

\* C18. Skip offset: when the run ends, the first args.skip actions of the
\* sequence Mkdirs, Puts by size, Removes have not been attempted and every
\* later one has been attempted once (the Removes only when removal is not
\* disabled).
C18_SkipOffset ==
    (EndedConnected /\ actions # <<>>) =>
        /\ Len(Execution) = Len(actions)
        /\ \A k \in 1..Len(Execution) :
              attempts[Execution[k]] =
                  IF k <= args.skip \/ (Execution[k].type = "Remove" /\ args.skip_removal)
                  THEN 0 ELSE 1

\* a run of three Puts and two Removes has ended with skip = 4: the three
\* Puts and the first Remove were skipped, the second Remove was attempted
C18_Witness ==
    /\ EndedConnected
    /\ args.skip = 4
    /\ ~args.skip_removal
    /\ Len(actions) = 5
    /\ \E a \in Range(actions) : a.type = "Remove" /\ attempts[a] = 0
    /\ \E a \in Range(actions) : a.type = "Remove" /\ attempts[a] = 1

\* C19 as stated: when a run that executed actions ends, close() has been
\* called once on every connection the engine made: the initial one, the
\* pooled ones and the one of the final write.
C19_ConnectionShutdown ==
    (pc \in {"ok", "failed"} /\ actions # <<>>) => connections.closed = connections.opened

\* C20. Corrupt snapshot handling: when the persisted snapshot is read but
\* does not decode, a run without the force option stops at the read, before
\* reconcile and with no mkdir, write or remove issued and the stored bytes
\* untouched; a run with the force option never stops there and reconciles
\* against the empty tree.
C20_CorruptSnapshot ==
    call.stored = "corrupt" =>
        IF args.force
        THEN /\ pc # "read_panic"
             /\ pc # "read_last_checksum" => previous_checksum_tree = DefaultTree
        ELSE /\ pc \in {"read_last_checksum", "read_panic"}
             /\ actions = <<>>
             /\ attempts = <<>>
             /\ remote.kind = "corrupt"
             /\ connections.opened = 1

\* a run without the force option that read an undecodable snapshot and stopped
C20_Witness ==
    /\ call.stored = "corrupt"
    /\ ~args.force
    /\ pc = "read_panic"

\* a run with the force option that read an undecodable snapshot, transferred
\* files and persisted the final snapshot
C20_ForcedRun ==
    /\ call.stored = "corrupt"
    /\ args.force
    /\ pc = "ok"
    /\ PutPaths # {}
    /\ remote.kind = "final"

\* C21. Serialization round-trip: a tree encoded by to_gzip and decoded by
\* from_gzip comes back with the same version, the same directories and the
\* same (path, fingerprint) file leaves.
C21_RoundTrip ==
    (call.fn = "gzip" /\ pc \notin {"to_gzip", "from_gzip"}) =>
        /\ pc = "returned"
        /\ previous_checksum_tree.version = scanned.version
        /\ TreeDirs(previous_checksum_tree) = TreeDirs(scanned)
        /\ TreeFiles(previous_checksum_tree) = TreeFiles(scanned)

\* a tree with a nested file and a directory has gone through both calls
C21_Witness ==
    /\ call.fn = "gzip"
    /\ pc = "returned"
    /\ \E x \in TreeFiles(scanned) : Len(x[1]) = 3
    /\ TreeDirs(scanned) # {}
    /\ scanned.version # ClientVersion

\* C22 as stated: on every transport, mkdir of a directory that is already
\* there returns Ok, so that running a Mkdir action again leaves the global
\* error flag as it was.
C22_IdempotentMkdir ==
    (call.fn = "mkdir" /\ call.count > 0 /\ call.existed) => (call.ok /\ ~has_error)

\* C23 as stated: on every transport, the snapshot that write_last_checksum
\* persisted is decoded by read_last_checksum of that transport into an
\* equal tree.
C23_EncodingPreserved ==
    (call.fn = "transport" /\ pc \notin {"write_last_checksum", "read_last_checksum_back"}) =>
        /\ pc = "returned"
        /\ previous_checksum_tree = scanned

\* the bytes the code has written: the result of to_gzip, or the content of
\* the checksum file after write_last_checksum
PersistedBytes ==
    IF call.fn = "gzip" /\ pc # "to_gzip" THEN call.bytes
    ELSE IF call.fn = "transport" /\ remote.kind = "bytes" THEN remote.bytes
    ELSE NoBytes

RECURSIVE WrittenWith(_, _, _, _)
\* node is element e written with dirTag on every directory and fileTag on
\* every file
WrittenWith(e, node, dirTag, fileTag) ==
    IF IsFile(e) THEN node.tag = fileTag /\ node.val = e.f
    ELSE /\ node.tag = dirTag
         /\ DOMAIN node.val = DOMAIN e.d
         /\ \A k \in DOMAIN e.d : WrittenWith(e.d[k], node.val[k], dirTag, fileTag)

\* the decoder has returned the tree the bytes were written from
DecodedEqual == pc = "returned" /\ previous_checksum_tree = scanned

\* C24 as stated: every directory node of a persisted snapshot carries the
\* discriminant "d" and every file node "f", and a snapshot written with
\* these discriminants is accepted by the decoder.
C24_Original ==
    /\ PersistedBytes # NoBytes => WrittenWith(scanned.root, PersistedBytes.doc.root, "d", "f")
    /\ (call.fn = "from_gzip" /\ pc # "from_gzip") => DecodedEqual

\* C24, amended. Every directory node of a persisted snapshot carries the
\* discriminant "Directory" and every file node "File"; the decoder accepts
\* a snapshot written with these and also one written with "d" and "f".
C24_WireFormat ==
    /\ PersistedBytes # NoBytes =>
           WrittenWith(scanned.root, PersistedBytes.doc.root, "Directory", "File")
    /\ (call.fn = "gzip" /\ pc \notin {"to_gzip", "from_gzip"}) => DecodedEqual
    /\ (call.fn = "from_gzip" /\ pc # "from_gzip") => DecodedEqual

\* a snapshot written with "d" and "f", holding a directory and a file, has
\* been decoded
C24_Witness ==
    /\ call.fn = "from_gzip"
    /\ pc = "returned"
    /\ TreeDirs(scanned) # {}
    /\ TreeFiles(scanned) # {}
    /\ call.bytes.doc.root.tag = "d"

\* C25 as stated: with interval K > 0, every positive multiple of K that the
\* number of finished Puts has reached and left, or holds when the Put phase
\* is over, has had a checkpoint built while the count was that multiple.
C25_CheckpointTrigger ==
    args.intermittent_checksum_upload > 0 =>
        \A c \in 1..Len(put_actions) :
            (/\ c % args.intermittent_checksum_upload = 0
             /\ \/ c < Cardinality(finished_paths)
                \/ c = Cardinality(finished_paths) /\ pc # "put")
            => \E i \in DOMAIN put_task : put_task[i].checkpoint_at = c

\* the paths that carry a Remove action
RemovePaths == PathsOfType(actions, "Remove")

\* C26. Remove failures leave the tree alone: once a Remove has failed the
\* error flag is set and the working tree is still next without the failed
\* Puts; no path that carries a Remove action, whether the Remove succeeded,
\* failed, was skipped or the phase was disabled, is a file or a directory
\* of the final persisted snapshot.
C26_RemoveFailures ==
    /\ (\E a \in failed : a.type = "Remove") =>
           /\ has_error
           /\ TreeFiles(next_checksum_tree) =
                  {x \in TreeFiles(scanned) : x[1] \notin FailedPutPaths}
    /\ remote.kind = "final" =>
           \A p \in RemovePaths :
               p \notin TreeFilePaths(remote.tree) /\ p \notin TreeDirs(remote.tree)

\* the final snapshot is persisted after one Remove failed and one succeeded
C26_Witness ==
    /\ remote.kind = "final"
    /\ \E a \in failed : a.type = "Remove"
    /\ \E p \in RemovePaths : Remove(p) \notin failed /\ attempts[Remove(p)] = 1
    /\ ~args.skip_removal

\* the directories whose Mkdir returned an error
FailedMkdirPaths == {a.path : a \in {x \in failed : x.type = "Mkdir"}}

\* the Puts of todo below directory dir
NestedPuts(dir) == {p \in PutPaths : IsProperPrefix(dir, p)}

\* the Put stream has been collected without a JoinError
PutPhaseOver == pc = "remove" \/ FinalStarted

\* C27. Mkdir failures do not retract: once a Mkdir has failed the error flag
\* is set and the working tree is still next without the failed Puts; when
\* the Put phase is over every Put below the failed directory has been
\* attempted, and each of them that succeeded is a file of the final
\* persisted snapshot.
C27_MkdirFailures ==
    FailedMkdirPaths # {} =>
        /\ has_error
        /\ TreeFiles(next_checksum_tree) =
               {x \in TreeFiles(scanned) : x[1] \notin FailedPutPaths}
        /\ PutPhaseOver =>
               \A dir \in FailedMkdirPaths : \A p \in NestedPuts(dir) : attempts[Put(p)] = 1
        /\ remote.kind = "final" =>
               \A dir \in FailedMkdirPaths :
                   \A p \in NestedPuts(dir) \ FailedPutPaths : p \in TreeFilePaths(remote.tree)

\* the Mkdir of a directory failed, the Put below it succeeded and the final
\* snapshot is persisted
C27_Witness ==
    /\ remote.kind = "final"
    /\ \E dir \in FailedMkdirPaths : \E p \in NestedPuts(dir) : p \in finished_paths

\* C28. Connections are always returned: a task that has completed holds no
\* connection, and the pool holds all args.concurrency connections when the
\* Put stream is collected, when the Remove phase starts, when the Remove
\* stream is collected and from then on.
C28_ConnectionsReturned ==
    /\ \A i \in DOMAIN put_task : put_task[i].pc = "done" => put_task[i].transport = 0
    /\ \A i \in DOMAIN remove_task : remove_task[i].pc = "done" => remove_task[i].transport = 0
    /\ (pc = "put" /\ Resolved(put_task)) => transports = args.concurrency
    /\ (pc = "remove" /\ (~Started(remove_task) \/ Resolved(remove_task))) =>
           transports = args.concurrency
    /\ FinalStarted => transports = args.concurrency

\* both streams are collected after a Put failed, a Put succeeded under
\* intermittent upload and a Remove failed, with two connections pooled
C28_Witness ==
    /\ pc = "remove"
    /\ remove_task # <<>>
    /\ Resolved(remove_task)
    /\ args.concurrency = 2
    /\ args.intermittent_checksum_upload = 1
    /\ FailedPutPaths # {}
    /\ finished_paths # {}
    /\ \E a \in failed : a.type = "Remove"
    /\ transports = 2

\* C29. Absent snapshot is not an error: when the read of the snapshot object
\* fails, the run never stops at the read, with or without the force option,
\* and goes on with the empty default tree as previous; when the object is
\* read but does not decode, a run without the force option stops at the
\* read.
C29_AbsentIsNotAnError ==
    /\ call.stored = "absent" =>
           /\ pc # "read_panic"
           /\ pc # "read_last_checksum" => previous_checksum_tree = DefaultTree
    /\ (call.stored = "corrupt" /\ ~args.force /\ pc # "read_last_checksum") =>
           pc = "read_panic"

\* a run without the force option found no snapshot, transferred files and
\* ended well
C29_Witness ==
    /\ call.stored = "absent"
    /\ ~args.force
    /\ pc = "ok"
    /\ PutPaths # {}
    /\ remote.kind = "final"

\* the non-empty proper prefixes of the paths of a flat map
Ancestors(map) == UNION {{SubSeq(p, 1, n) : n \in 1..(Len(p) - 1)} : p \in DOMAIN map}

\* C30. Tree construction from a flat map: whatever order the map is iterated
\* in, the tree built has the (path, fingerprint) pairs of the map as its
\* file leaves and the proper prefixes of the paths as its directories (so
\* the tree is one and the same for every order), and none of its
\* directories is empty.
C30_FromFlatMap ==
    (call.fn = "from" /\ pc = "returned") =>
        /\ next_checksum_tree # Panic
        /\ next_checksum_tree.version = ClientVersion
        /\ TreeFiles(next_checksum_tree) = {<<p, call.map[p]>> : p \in DOMAIN call.map}
        /\ TreeDirs(next_checksum_tree) = Ancestors(call.map)
        /\ NoEmptyDirectory(next_checksum_tree)

\* a map of three files, two of them in one directory, built in an order
\* that puts the deeper file between the other two
C30_Witness ==
    /\ call.fn = "from"
    /\ pc = "returned"
    /\ Len(call.order) = 3
    /\ call.order[2] = <<".", "d", "n", "h">>
    /\ call.order[3] = <<".", "d", "b">>

\* the remote snapshot is the one the run read, and nothing was issued
Untouched ==
    /\ remote = [tree |-> previous_checksum_tree, kind |-> "previous", finished |-> {}]
    /\ attempts = <<>>
    /\ connections = [opened |-> 1, closed |-> 0]

\* C31. Version mismatch stops the run before any change: when the version
\* of previous sorts after the version of next, the run goes from the call of
\* reconcile to the version-mismatch error and nowhere else, no action is
\* built, no transport call is made, no further connection is opened and the
\* remote snapshot stays the one that was read.
C31_VersionMismatchStops ==
    LexLess(next_checksum_tree.version, previous_checksum_tree.version) =>
        /\ pc \in {"reconcile", "version_mismatch"}
        /\ actions = <<>>
        /\ Untouched

\* the run has stopped at the gate though the trees differ: previous at "9"
\* holds a file that next at "10" lacks, and next a file previous lacks
C31_Witness ==
    /\ pc = "version_mismatch"
    /\ TreeFilePaths(previous_checksum_tree) \ TreeFilePaths(next_checksum_tree) # {}
    /\ TreeFilePaths(next_checksum_tree) \ TreeFilePaths(previous_checksum_tree) # {}
    /\ args.concurrency = 2

\* C32. Reconcile is total on well-formed trees: for every pair of trees with
\* next.version >= previous.version, a name that is a file in one tree and a
\* directory in the other included, reconcile never reaches an unreachable
\* branch and never panics.
C32_ReconcileTotal ==
    ~LexLess(next_checksum_tree.version, previous_checksum_tree.version) => pc # "panic"

\* a Put or Remove phase that is not over can take a step
NotStuck == pc \in {"put", "remove"} => ENABLED Next

Completed(tasks) == \A i \in DOMAIN tasks : tasks[i].pc \in {"skipped", "done"}

\* C33. Deadlock freedom and termination: with every transport call
\* returning and a runtime that keeps polling, a run in its Put phase leaves
\* it with every Put task completed, and a run in its Remove phase leaves it
\* with every Remove task completed, whatever the interleaving of the tasks on
\* the pool, the working tree and the finished set; and no state of either
\* phase is without a step to take.
C33_Termination ==
    /\ []NotStuck
    /\ (pc = "put") ~> (pc # "put" /\ Completed(put_task))
    /\ (pc = "remove") ~> (pc # "remove" /\ Completed(remove_task))

\* a task holds the finished set while it writes its checkpoint, and another
\* task whose write has returned waits for the finished set
C33_Witness ==
    /\ pc = "put"
    /\ \E i, j \in DOMAIN put_task :
          /\ put_task[i].pc = "ckwrite"
          /\ finished_guard = i
          /\ put_task[j].pc \in {"writing", "check_len", "check_mod", "lock_finished"}

\* the tasks that are about to pop a connection from the pool
AboutToPop(tasks) == {i \in DOMAIN tasks : tasks[i].pc = "spawned"}

\* C34. Checkout never finds the pool empty: whenever a Put or Remove task
\* is about to take a connection the pool holds at least one, so no task
\* panics on the pop and no stream is collected with a JoinError.
C34_CheckoutNeverEmpty ==
    /\ (AboutToPop(put_task) \cup AboutToPop(remove_task)) # {} => transports >= 1
    /\ \A i \in DOMAIN put_task : put_task[i].pc # "panicked"
    /\ \A i \in DOMAIN remove_task : remove_task[i].pc # "panicked"
    /\ pc # "join_error"

\* with one connection, the third Put is about to pop after the first two
\* have completed, and with it a Remove after the Puts
C34_Witness ==
    /\ args.concurrency = 1
    /\ \/ /\ pc = "put"
          /\ Len(put_task) = 3
          /\ put_task[1].pc = "done" /\ put_task[2].pc = "done"
          /\ put_task[3].pc = "spawned"
       \/ /\ pc = "remove"
          /\ Len(remove_task) = 2
          /\ remove_task[1].pc = "done"
          /\ remove_task[2].pc = "spawned"

\* the tasks that are writing a checkpoint
WritingCheckpoint == {i \in DOMAIN put_task : put_task[i].pc = "ckwrite"}

\* this step persists a snapshot
Persists == remote' # remote

\* C35. Persisted snapshots never regress within a run: a snapshot written
\* over a checkpoint of the run holds every file path of that checkpoint,
\* nothing is written over the final snapshot, at most one task writes a
\* checkpoint at a time, and the final snapshot is written when every Put
\* task has completed, its checkpoint write included.
C35_NoRegress ==
    [][/\ (Persists /\ remote.kind = "checkpoint") =>
              TreeFilePaths(remote.tree) \subseteq TreeFilePaths(remote'.tree)
       /\ (Persists /\ remote'.kind = "final") =>
              /\ remote.kind # "final"
              /\ WritingCheckpoint = {}
              /\ Completed(put_task)
       /\ remote.kind = "final" => ~Persists
       /\ Cardinality(WritingCheckpoint') <= 1]_vars

\* the final snapshot stands over a checkpoint that lacked a path it holds,
\* after a Put failed and a checkpoint was written by each of two tasks
C35_Witness ==
    /\ remote.kind = "final"
    /\ FailedPutPaths # {}
    /\ Cardinality({i \in DOMAIN put_task : put_task[i].checkpoint_at > 0}) >= 2
    /\ args.concurrency = 2

\* the Put paths the skip offset excludes, known once the Puts are sorted
SkippedPuts == IF put_actions = <<>> THEN {} ELSE {p \in PutPaths : Excluded(Put(p))}

\* the path p is a file of tree t with the checksum next has for it
AsInNext(t, p) == \E x \in TreeFiles(scanned) : x[1] = p /\ x \in TreeFiles(t)

\* C36. Skipped Puts in snapshots: a Put excluded by the skip offset is never
\* attempted and never retracted from the working tree, its path is a file
\* of the final persisted snapshot with next's fingerprint, and no checkpoint
\* snapshot of the run holds that path.
C36_SkippedPuts ==
    \A p \in SkippedPuts :
        /\ attempts[Put(p)] = 0
        /\ Put(p) \notin failed
        /\ AsInNext(next_checksum_tree, p)
        /\ remote.kind = "final" => AsInNext(remote.tree, p)
        /\ remote.kind = "checkpoint" => p \notin TreeFilePaths(remote.tree)
        /\ \A i \in WritingCheckpoint : p \notin TreeFilePaths(put_task[i].snapshot)

\* the final snapshot is persisted in a run that skipped a Put and in which
\* a later Put built a checkpoint
C36_Witness ==
    /\ remote.kind = "final"
    /\ SkippedPuts # {}
    /\ \E i \in DOMAIN put_task : put_task[i].checkpoint_at > 0

\* the files of next below directory dir
FilesBelow(dir) == {p \in TreeFilePaths(scanned) : IsProperPrefix(dir, p)}

\* C37. A failed directory is not recreated by the next run: when Mkdir(D)
\* failed and every Put below D failed, the final persisted snapshot the next
\* run reads holds D as a directory without files, and the list reconcile
\* builds from it and the same scan holds a Put for each file below D and no
\* Mkdir(D).
C37_FailedDirectoryNotRecreated ==
    call.fn = "rerun" =>
        \A D \in FailedMkdirPaths :
            FilesBelow(D) \subseteq call.failed =>
                /\ D \in TreeDirs(previous_checksum_tree)
                /\ \A p \in TreeFilePaths(previous_checksum_tree) : ~IsPrefix(D, p)
                /\ Mkdir(D) \notin Range(actions)
                /\ pc = "reconciled" => \A p \in FilesBelow(D) : Put(p) \in Range(actions)

\* the second run has reconciled after a first run in which Mkdir(./d) and
\* the Put of ./d/b failed while the Put of ./c succeeded
C37_Witness ==
    /\ call.fn = "rerun"
    /\ pc = "reconciled"
    /\ <<".", "d">> \in FailedMkdirPaths
    /\ call.failed = {FileB}
    /\ Put(FileB) \in Range(actions)

\* this step is the checkpoint write of task i, and nothing new is persisted:
\* the write failed (or wrote what was there)
CheckpointNotWritten(i) ==
    /\ put_task[i].pc = "ckwrite"
    /\ put_task'[i].pc = "release"
    /\ ~Persists

\* C38. Checkpoint write failures are ignored: the step in which the write
\* of a checkpoint fails leaves the error flag, the working tree, the
\* finished set and the pool as they are, the Put that triggered it is in
\* the finished set, and the task goes on, with its connection, to give it
\* back to the pool; a task that has completed holds no connection.
C38_CheckpointFailureIgnored ==
    [][\A i \in DOMAIN put_task :
          /\ CheckpointNotWritten(i) =>
                /\ has_error' = has_error
                /\ failed' = failed
                /\ next_checksum_tree' = next_checksum_tree
                /\ finished_paths' = finished_paths
                /\ put_actions[i] \in finished_paths'
                /\ transports' = transports
                /\ put_task'[i].transport = 1
          /\ (put_task[i].pc = "release" /\ put_task'[i].pc # "release") =>
                /\ put_task'[i].pc = "done"
                /\ put_task'[i].transport = 0
                /\ transports' = transports + 1]_vars

\* every Put has completed without an error, checkpoints were built, none of
\* them was persisted, and the pool is whole again
C38_Witness ==
    /\ pc = "put"
    /\ put_task # <<>>
    /\ Completed(put_task)
    /\ \E i \in DOMAIN put_task : put_task[i].checkpoint_at > 0
    /\ remote.kind = "previous"
    /\ ~has_error
    /\ finished_paths = PutPaths
    /\ transports = args.concurrency

\* C39. No-op run writes nothing: when reconcile has returned an empty
\* action list the run ends successfully at once: no mkdir, write or remove
\* is issued, no further connection is opened, nothing is persisted, and the
\* remote snapshot is the one that was read, version included.
C39_NoopRun ==
    (actions = <<>> /\ pc \notin {"reconcile", "diff", "deletions", "version_mismatch"}) =>
        /\ pc \in {"reconciled", "ok"}
        /\ Untouched
        /\ ~has_error

\* a run over an unchanged directory has ended, and the snapshot it read was
\* written by an older version
C39_Witness ==
    /\ pc = "ok"
    /\ actions = <<>>
    /\ remote.tree.version # next_checksum_tree.version
    /\ TreeFiles(remote.tree) = TreeFiles(scanned)
    /\ TreeFiles(scanned) # {}

\* the number of chunks the source holds
Chunks(reads) == Cardinality({i \in DOMAIN reads : reads[i] = "data"})

\* C40. Source read errors fail the transfer: for the FTP and SFTP
\* transports, write returns an error whenever a read of the source stream
\* fails before the end of file, and returns Ok(n) only when every chunk of
\* the source was read and written; so a Put whose source read failed is
\* not in the finished set and its path is retracted from the working tree.
C40_SourceReadErrors ==
    (call.fn = "write" /\ pc \in {"write_returned", "returned"}) =>
        /\ "error" \in Range(call.reads) => ~call.result.ok
        /\ call.result.ok =>
              /\ call.result.n = Chunks(call.reads)
              /\ call.sink_ok \/ Chunks(call.reads) = 0
        /\ ("error" \in Range(call.reads) /\ pc = "returned") =>
              /\ call.path \notin finished_paths
              /\ call.path \notin TreeFilePaths(next_checksum_tree)
              /\ has_error

====
